---------------------------- MODULE Spec2Model ----------------------------
(***************************************************************************)
(* A model of the HR news aggregator of src/scraper/run.py: the rate       *)
(* limited model caller (_call_gemini, RateLimiter), the summarization     *)
(* orchestrator (summarize_bullets), semantic_dedup, and the pipeline      *)
(* driver (scrape, main).                                                  *)
(*                                                                         *)
(* A Python str, the text of a model answer included, is a sequence of     *)
(* characters, so that strip / lower / the regular expressions / json      *)
(* are computed character by character. A printable ASCII character is     *)
(* the one-character string, the tab, line feed, form feed and carriage    *)
(* return are "\t" "\n" "\f" "\r", and every other character is named by   *)
(* its code point in upper-case hexadecimal ("U+2022" is the bullet glyph, *)
(* "U+0060" the grave accent, "U+0000" NUL).                               *)
(*                                                                         *)
(* A JSON value is a record tagged by k: "null", "bool" (b), "num" (the    *)
(* number n / d, d a power of ten, in lowest terms), "nonfinite" (v: NaN,  *)
(* Infinity or -Infinity), "str" (s, the characters), "list" (items) and   *)
(* "obj" (keys, the dict's keys in insertion order, and the five fields    *)
(* the code reads; a missing key and an explicit null both read as null    *)
(* through obj.get).                                                       *)
(***************************************************************************)
EXTENDS Integers, Sequences, FiniteSets, TLC

Min(a, b) == IF a <= b THEN a ELSE b

Max(a, b) == IF a >= b THEN a ELSE b

\* The element of a set of one element: Only({e : x \in {v}}) is e for x = v
Only(S) == CHOOSE x \in S : TRUE

RECURSIVE Pow(_, _)
\* b ** e
Pow(b, e) == IF e = 0 THEN 1 ELSE b * Pow(b, e - 1)

(***************************************************************************)
(* Python values                                                           *)
(***************************************************************************)
\* The characters of a string written here, one by one.
Chars(str) == [i \in 1..Len(str) |-> SubSeq(str, i, i)]

None == [k |-> "null"]

JBool(b) == [k |-> "bool", b |-> b]

RECURSIVE Num(_, _)
\* The number n / d for d a power of ten. An int and the float equal to it
\* are one value: they are equal and hash alike in Python.
Num(n, d) ==
    IF d > 1 /\ n % 10 = 0 THEN Num(n \div 10, d \div 10)
    ELSE [k |-> "num", n |-> n, d |-> d]

\* The number given in tenths: JNum(79) is 7.9, JNum(40) is 4.
JNum(tenths) == Num(tenths, 10)

\* float("nan"), float("inf"), float("-inf"), by the name JSON gives them
JNonFinite(name) == [k |-> "nonfinite", v |-> name]

JStr(chars) == [k |-> "str", s |-> chars]

JList(xs) == [k |-> "list", items |-> xs]

\* The dict with exactly the five keys the prompt asks for, in that order.
JObj(url, bullets, companies, significance, category) ==
    [k |-> "obj", url |-> url, bullets |-> bullets, companies |-> companies,
     significance |-> significance, category |-> category,
     keys |-> <<Chars("url"), Chars("bullets"), Chars("companies"),
                Chars("significance"), Chars("category")>>]

\* A dict with the keys given, in that order, and null under each of the
\* five keys the code reads.
JDict(keys) ==
    [k |-> "obj", url |-> None, bullets |-> None, companies |-> None,
     significance |-> None, category |-> None, keys |-> keys]

\* isinstance(v, str)
IsStrChars(v) == v.k = "str"

\* Python truthiness of a JSON value ("not v" is ~Truthy(v)).
Truthy(v) ==
    CASE v.k = "null" -> FALSE
      [] v.k = "bool" -> v.b
      [] v.k = "num"  -> v.n # 0
      [] v.k = "str"  -> v.s # <<>>
      [] v.k = "list" -> v.items # <<>>
      [] v.k = "obj"  -> v.keys # <<>>
      [] OTHER        -> TRUE

(***************************************************************************)
(* Characters and strings                                                  *)
(***************************************************************************)
\* The printable ASCII characters, code points 32 to 126 in order.
Alphabet ==
    <<
      " ", "!", "\"", "#", "$", "%", "&", "'", "(", ")", "*", "+",
      ",", "-", ".", "/", "0", "1", "2", "3", "4", "5", "6", "7",
      "8", "9", ":", ";", "<", "=", ">", "?", "@", "A", "B", "C",
      "D", "E", "F", "G", "H", "I", "J", "K", "L", "M", "N", "O",
      "P", "Q", "R", "S", "T", "U", "V", "W", "X", "Y", "Z", "[",
      "\\", "]", "^", "_", "U+0060", "a", "b", "c", "d", "e", "f", "g",
      "h", "i", "j", "k", "l", "m", "n", "o", "p", "q", "r", "s",
      "t", "u", "v", "w", "x", "y", "z", "{", "|", "}", "~" >>

\* The code points of the characters that are not named by their code point.
NamedCodePoints ==
    [c \in {Alphabet[i] : i \in (1..Len(Alphabet)) \ {65}}
           \cup {"\t", "\n", "\f", "\r"} |->
        CASE c = "\t" -> 9
          [] c = "\n" -> 10
          [] c = "\f" -> 12
          [] c = "\r" -> 13
          [] OTHER -> 31 + (CHOOSE i \in 1..Len(Alphabet) : Alphabet[i] = c)]

HexDigits ==
    <<"0", "1", "2", "3", "4", "5", "6", "7", "8", "9",
      "A", "B", "C", "D", "E", "F">>

\* The value of one hexadecimal digit, in either case
HexMap ==
    [h \in {HexDigits[i] : i \in 1..16} \cup {"a", "b", "c", "d", "e", "f"} |->
        IF h \in {"a", "b", "c", "d", "e", "f"}
        THEN 9 + (CHOOSE i \in 1..6 : <<"a", "b", "c", "d", "e", "f">>[i] = h)
        ELSE (CHOOSE i \in 1..16 : HexDigits[i] = h) - 1]

RECURSIVE HexValue(_)
\* int(h, 16), h a sequence of hexadecimal digits
HexValue(h) ==
    IF Len(h) = 0 THEN 0
    ELSE 16 * HexValue(SubSeq(h, 1, Len(h) - 1)) + HexMap[h[Len(h)]]

RECURSIVE HexText(_, _)
\* n in upper-case hexadecimal, on width digits at least
HexText(n, width) ==
    IF n = 0 /\ width <= 0 THEN ""
    ELSE HexText(n \div 16, width - 1) \o HexDigits[(n % 16) + 1]

\* ord(c)
CodePoint(c) ==
    IF c \in DOMAIN NamedCodePoints THEN NamedCodePoints[c]
    ELSE HexValue(Chars(SubSeq(c, 3, Len(c))))

\* chr(cp)
CharOf(cp) ==
    CASE cp = 9 -> "\t"
      [] cp = 10 -> "\n"
      [] cp = 12 -> "\f"
      [] cp = 13 -> "\r"
      [] cp \in 32..126 -> Alphabet[cp - 31]
      [] OTHER -> "U+" \o HexText(cp, 4)

LowerMap ==
    ("A" :> "a") @@ ("B" :> "b") @@ ("C" :> "c") @@ ("D" :> "d") @@
    ("E" :> "e") @@ ("F" :> "f") @@ ("G" :> "g") @@ ("H" :> "h") @@
    ("I" :> "i") @@ ("J" :> "j") @@ ("K" :> "k") @@ ("L" :> "l") @@
    ("M" :> "m") @@ ("N" :> "n") @@ ("O" :> "o") @@ ("P" :> "p") @@
    ("Q" :> "q") @@ ("R" :> "r") @@ ("S" :> "s") @@ ("T" :> "t") @@
    ("U" :> "u") @@ ("V" :> "v") @@ ("W" :> "w") @@ ("X" :> "x") @@
    ("Y" :> "y") @@ ("Z" :> "z")

\* str.lower() of the characters from U+0080 to U+036F (Latin-1, Latin
\* Extended-A and B, IPA, modifier letters, combining marks) that have a
\* lower-case letter: <<first, last, step, delta>> lowers every step-th code
\* point from first to last by adding delta.
LowerTable ==
    <<
      <<192, 214, 1, 32>>, <<216, 222, 1, 32>>, <<256, 302, 2, 1>>, <<306, 310, 2, 1>>,
      <<313, 327, 2, 1>>, <<330, 374, 2, 1>>, <<376, 376, 1, -121>>, <<377, 381, 2, 1>>,
      <<385, 385, 1, 210>>, <<386, 388, 2, 1>>, <<390, 390, 1, 206>>, <<391, 391, 1, 1>>,
      <<393, 394, 1, 205>>, <<395, 395, 1, 1>>, <<398, 398, 1, 79>>, <<399, 399, 1, 202>>,
      <<400, 400, 1, 203>>, <<401, 401, 1, 1>>, <<403, 403, 1, 205>>, <<404, 404, 1, 207>>,
      <<406, 406, 1, 211>>, <<407, 407, 1, 209>>, <<408, 408, 1, 1>>, <<412, 412, 1, 211>>,
      <<413, 413, 1, 213>>, <<415, 415, 1, 214>>, <<416, 420, 2, 1>>, <<422, 422, 1, 218>>,
      <<423, 423, 1, 1>>, <<425, 425, 1, 218>>, <<428, 428, 1, 1>>, <<430, 430, 1, 218>>,
      <<431, 431, 1, 1>>, <<433, 434, 1, 217>>, <<435, 437, 2, 1>>, <<439, 439, 1, 219>>,
      <<440, 440, 1, 1>>, <<444, 444, 1, 1>>, <<452, 452, 1, 2>>, <<453, 453, 1, 1>>,
      <<455, 455, 1, 2>>, <<456, 456, 1, 1>>, <<458, 458, 1, 2>>, <<459, 475, 2, 1>>,
      <<478, 494, 2, 1>>, <<497, 497, 1, 2>>, <<498, 500, 2, 1>>, <<502, 502, 1, -97>>,
      <<503, 503, 1, -56>>, <<504, 542, 2, 1>>, <<544, 544, 1, -130>>, <<546, 562, 2, 1>>,
      <<570, 570, 1, 10795>>, <<571, 571, 1, 1>>, <<573, 573, 1, -163>>, <<574, 574, 1, 10792>>,
      <<577, 577, 1, 1>>, <<579, 579, 1, -195>>, <<580, 580, 1, 69>>, <<581, 581, 1, 71>>,
      <<582, 590, 2, 1>> >>

\* The lower-case letter of one character, where it is one character. The
\* strings of the model hold the characters below U+0370, those of General
\* Punctuation (U+2000 to U+206F) and the ideographic space U+3000; none of
\* the last two blocks has a case.
LowerChar(c) ==
    IF c \in DOMAIN LowerMap THEN LowerMap[c]
    ELSE IF c \in DOMAIN NamedCodePoints THEN c
    ELSE LET cp == CodePoint(c)
             hits == {i \in 1..Len(LowerTable) :
                         /\ LowerTable[i][1] <= cp /\ cp <= LowerTable[i][2]
                         /\ (cp - LowerTable[i][1]) % LowerTable[i][3] = 0}
         IN IF hits = {} THEN c
            ELSE CharOf(cp + LowerTable[CHOOSE i \in hits : TRUE][4])

RECURSIVE LowerFrom(_)
LowerFrom(s) ==
    IF s = <<>> THEN <<>>
    ELSE (IF Head(s) = "U+0130" THEN <<"i", "U+0307">> ELSE <<LowerChar(Head(s))>>)
         \o LowerFrom(Tail(s))

\* str.lower(): character by character; the dotted capital I (U+0130) alone
\* gives two characters.
Lower(s) ==
    IF \E i \in 1..Len(s) : s[i] = "U+0130" THEN LowerFrom(s)
    ELSE [i \in 1..Len(s) |-> LowerChar(s[i])]

\* The character a pattern compiled with re.I compares with its own ASCII
\* letter: the lower-case letter, with the dotless i (U+0131) and the dotted
\* capital I (U+0130) as "i", the long s (U+017F) as "s" and the Kelvin sign
\* (U+212A) as "k".
FoldChar(c) ==
    CASE c = "U+017F" -> "s"
      [] c \in {"U+0130", "U+0131"} -> "i"
      [] c = "U+212A" -> "k"
      [] OTHER -> LowerChar(c)

Fold(s) == [i \in 1..Len(s) |-> FoldChar(s[i])]

\* The code points of white space: str.isspace(), what str.strip() removes
\* and \s matches.
SpaceCodePoints ==
    (9..13) \cup (28..32) \cup {133, 160, 5760} \cup (8192..8202)
    \cup {8232, 8233, 8239, 8287, 12288}

IsSpace(c) == c = " " \/ c = "\n" \/ CodePoint(c) \in SpaceCodePoints

RECURSIVE LStrip(_)
LStrip(s) == IF s # <<>> /\ IsSpace(Head(s)) THEN LStrip(Tail(s)) ELSE s

RECURSIVE RStrip(_)
RStrip(s) ==
    IF s # <<>> /\ IsSpace(s[Len(s)]) THEN RStrip(SubSeq(s, 1, Len(s) - 1)) ELSE s

\* str.strip()
Strip(s) == RStrip(LStrip(s))

\* a in b, for strings
IsSubstr(a, b) ==
    /\ Len(a) <= Len(b)
    /\ \E i \in 0..(Len(b) - Len(a)) : SubSeq(b, i + 1, i + Len(a)) = a

StartsWith(s, p) == Len(p) <= Len(s) /\ SubSeq(s, 1, Len(p)) = p

EndsWith(s, p) == Len(p) <= Len(s) /\ SubSeq(s, Len(s) - Len(p) + 1, Len(s)) = p

\* The code points below U+0370 that \w matches in a str pattern: letters,
\* digits and the underscore. General Punctuation and U+3000 hold none.
WordCodePoints ==
    (48..57) \cup (65..90) \cup {95} \cup (97..122) \cup {170, 178, 179, 181}
    \cup {185, 186} \cup (188..190) \cup (192..214) \cup (216..246)
    \cup (248..705) \cup (710..721) \cup (736..740) \cup {748, 750}

IsWordChar(c) == CodePoint(c) \in WordCodePoints

(***************************************************************************)
(* Taxonomy (run.py 74-116)                                                *)
(***************************************************************************)
CATEGORY_TAXONOMY == <<
    <<"T","a","l","e","n","t"," ","A","c","q","u","i","s","i","t","i","o","n">>,
    <<"C","o","m","p","e","n","s","a","t","i","o","n"," ","&"," ","B","e","n","e","f","i","t","s">>,
    <<"L","e","a","r","n","i","n","g"," ","&"," ","D","e","v","e","l","o","p","m","e","n","t">>,
    <<"P","e","r","f","o","r","m","a","n","c","e"," ","M","a","n","a","g","e","m","e","n","t">>,
    <<"E","m","p","l","o","y","e","e"," ","E","n","g","a","g","e","m","e","n","t">>,
    <<"D","i","v","e","r","s","i","t","y"," ","&"," ","I","n","c","l","u","s","i","o","n">>,
    <<"H","R"," ","T","e","c","h"," ","&"," ","A","I">>,
    <<"W","o","r","k","p","l","a","c","e"," ","P","o","l","i","c","y"," ","&"," ","C","u","l","t","u","r","e">>,
    <<"L","e","g","a","l"," ","&"," ","C","o","m","p","l","i","a","n","c","e">>,
    <<"O","r","g"," ","D","e","s","i","g","n"," ","&"," ","R","e","s","t","r","u","c","t","u","r","i","n","g">>,
    <<"P","e","o","p","l","e"," ","A","n","a","l","y","t","i","c","s">> >>

TaxonomyLabels == {CATEGORY_TAXONOMY[i] : i \in 1..Len(CATEGORY_TAXONOMY)}

\* The literal "Workplace Policy & Culture" the code falls back to.
DEFAULT_CATEGORY == CATEGORY_TAXONOMY[8]

\* The test of the loop body of snap_to_taxonomy for one taxonomy entry t.
SnapMatches(n, t) ==
    LET tl == Lower(t) IN n = tl \/ IsSubstr(n, tl) \/ IsSubstr(tl, n)

\* snap_to_taxonomy(name): None for a falsy name, the first taxonomy entry that
\* equals, contains or is contained in the stripped lower-cased name, else
\* None. A truthy non-string has no .strip(): AttributeError.
SnapToTaxonomy(name) ==
    IF ~Truthy(name) THEN None
    ELSE IF name.k # "str" THEN [k |-> "raise", exc |-> "AttributeError"]
    ELSE LET n == Lower(Strip(name.s))
             hits == {i \in 1..Len(CATEGORY_TAXONOMY) : SnapMatches(n, CATEGORY_TAXONOMY[i])}
         IN IF hits = {} THEN None
            ELSE JStr(CATEGORY_TAXONOMY[CHOOSE i \in hits : \A j \in hits : i <= j])

(***************************************************************************)
(* Normalization of one parsed object (summarize_bullets, run.py 505-602)  *)
(***************************************************************************)
MIN_SIG == 1

MAX_SIG == 5

DEFAULT_SIG == 3

MAX_BULLETS == 4

MAX_COMPANIES == 8

\* int(round(val)) for val = n / d: Python 3 rounds halves to even.
\* Fault: int(val) for int(round(val))
RoundDown(n, d) == n \div d

\* round(val) of the number n / d: the nearest integer, a tie to the even one
RoundHalfEven(n, d) ==
    LET q == n \div d
        r == n % d
    IN IF 2 * r < d THEN q
       ELSE IF 2 * r > d THEN q + 1
       ELSE IF q % 2 = 0 THEN q ELSE q + 1

DigitValue == ("1" :> 1) @@ ("2" :> 2) @@ ("3" :> 3) @@ ("4" :> 4) @@ ("5" :> 5)

RECURSIVE FirstDigit1to5(_)
\* re.search(r"[1-5]", val): the value of the first such digit, 0 when none.
FirstDigit1to5(s) ==
    IF s = <<>> THEN 0
    ELSE IF Head(s) \in DOMAIN DigitValue THEN DigitValue[Head(s)]
    ELSE FirstDigit1to5(Tail(s))

\* The value s of coerce_significance before the closing clamp. round() of
\* an infinity or of NaN raises, and the except clause gives the default.
RawSignificance(val) ==
    CASE val.k = "bool" -> DEFAULT_SIG
      [] val.k = "num"  -> RoundHalfEven(val.n, val.d)
      [] val.k = "str"  ->
            IF FirstDigit1to5(val.s) # 0 THEN FirstDigit1to5(val.s) ELSE DEFAULT_SIG
      [] OTHER -> DEFAULT_SIG

\* coerce_significance(val) = max(1, min(s, 5))
CoerceSignificance(val) == Max(MIN_SIG, Min(RawSignificance(val), MAX_SIG))

LeadIns == {Chars("this url"), Chars("the url"), Chars("the link")}

\* Index of the first ":" of s after position q that no newline precedes
\* (".*?:" does not cross a line break); 0 when there is none.
FirstColonAfter(s, q) ==
    LET js == {j \in (q + 1)..Len(s) :
                  s[j] = ":" /\ \A i \in (q + 1)..(j - 1) : s[i] # "\n"}
    IN IF js = {} THEN 0 ELSE CHOOSE j \in js : \A i \in js : j <= i

\* re.sub(r"(?i)^(this url|the url|the link)\b.*?:\s*", "", s).strip()
StripLeadIn(s) ==
    LET l  == Fold(s)
        ps == {p \in LeadIns :
                  /\ StartsWith(l, p)
                  /\ (Len(s) = Len(p) \/ ~IsWordChar(s[Len(p) + 1]))}
    IN IF ps = {} THEN Strip(s)
       ELSE LET p == CHOOSE x \in ps : TRUE
                j == FirstColonAfter(s, Len(p))
            IN IF j = 0 THEN Strip(s) ELSE Strip(SubSeq(s, j + 1, Len(s)))

\* re.sub(r"^\s*[-U+2022]\s*", "", s).strip(): a leading hyphen or bullet
\* glyph goes.
StripGlyph(s) ==
    LET t == LStrip(s)
    IN IF t # <<>> /\ Head(t) \in {"-", "U+2022"} THEN Strip(Tail(t)) ELSE Strip(s)

\* clean_bullet(s)
clean_bullet(s) == StripGlyph(StripLeadIn(s))

\* Whether a Python for-loop over v runs: a list yields its elements, a dict
\* its keys; iterating a number or a boolean raises TypeError.
Iterable(v) == v.k \in {"list", "str", "obj"}

\* "v or []", then a single string wrapped in a list; the elements the
\* comprehension then iterates over.
AsList(v) ==
    IF ~Truthy(v) THEN <<>>
    ELSE IF v.k = "str" THEN <<v>>
    ELSE IF v.k = "obj" THEN [i \in 1..Len(v.keys) |-> JStr(v.keys[i])]
    ELSE v.items

RECURSIVE KeepStrings(_)
\* [x for x in xs if isinstance(x, str) and x.strip()]
KeepStrings(xs) ==
    IF xs = <<>> THEN <<>>
    ELSE IF IsStrChars(Head(xs)) /\ Strip(Head(xs).s) # <<>>
         THEN <<Head(xs).s>> \o KeepStrings(Tail(xs))
         ELSE KeepStrings(Tail(xs))

Cap(xs, n) == IF Len(xs) > n THEN SubSeq(xs, 1, n) ELSE xs

\* bullets: cleaned, at most four.
NormBullets(v) ==
    LET kept == KeepStrings(AsList(v))
    IN Cap([i \in 1..Len(kept) |-> clean_bullet(kept[i])], MAX_BULLETS)

RECURSIVE UniqCaseless(_, _)
\* The seen_c / uniq_c loop: first occurrence of each lower-cased name.
UniqCaseless(cs, seen) ==
    IF cs = <<>> THEN <<>>
    ELSE IF Lower(Head(cs)) \in seen THEN UniqCaseless(Tail(cs), seen)
    ELSE <<Head(cs)>> \o UniqCaseless(Tail(cs), seen \cup {Lower(Head(cs))})

\* companies: stripped, case-insensitively unique, at most eight.
NormCompanies(v) ==
    LET kept == KeepStrings(AsList(v))
    IN Cap(UniqCaseless([i \in 1..Len(kept) |-> Strip(kept[i])], {}), MAX_COMPANIES)

\* Whether v can be a dict key: a list or a dict is unhashable (TypeError).
Hashable(v) == v.k \notin {"list", "obj"}

\* The key out[url] is written under: the value itself, True being the key
\* 1 and False the key 0 (they are equal and hash alike). A number is one
\* key whether written as an int or a float; Infinity, -Infinity and NaN
\* are three keys.
OutKey(v) ==
    IF v.k = "bool" THEN Num(IF v.b THEN 1 ELSE 0, 1) ELSE v

\* The body of the try block for one element of data: "skip" when the object
\* has no url or an exception is caught, else the (url, record) to store.
NormalizeObj(obj) ==
    IF obj.k # "obj" THEN [k |-> "skip", why |-> "AttributeError"]
    ELSE IF ~Truthy(obj.url) THEN [k |-> "skip", why |-> "no url"]
    ELSE IF Truthy(obj.bullets) /\ ~Iterable(obj.bullets)
         THEN [k |-> "skip", why |-> "TypeError"]
    ELSE IF Truthy(obj.companies) /\ ~Iterable(obj.companies)
         THEN [k |-> "skip", why |-> "TypeError"]
    ELSE Only({IF snapped.k = "raise" THEN [k |-> "skip", why |-> "AttributeError"]
               ELSE IF ~Hashable(obj.url) THEN [k |-> "skip", why |-> "TypeError"]
               ELSE [k |-> "store",
                     url |-> OutKey(obj.url),
                     rec |-> [bullets      |-> NormBullets(obj.bullets),
                              companies    |-> NormCompanies(obj.companies),
                              significance |-> CoerceSignificance(obj.significance),
                              category     |-> IF snapped = None THEN DEFAULT_CATEGORY
                                               ELSE snapped.s]] :
               snapped \in {SnapToTaxonomy(obj.category)}})

\* out[url] = rec
Put(m, url, rec) == (url :> rec) @@ m

\* Fault: the first exception ends the loop over the batch
RECURSIVE StoreObjectsUntilRaise(_, _)
StoreObjectsUntilRaise(m, data) ==
    IF data = <<>> THEN m
    ELSE Only({IF r.k = "store"
               THEN StoreObjectsUntilRaise(Put(m, r.url, r.rec), Tail(data))
               ELSE IF r.why = "no url" THEN StoreObjectsUntilRaise(m, Tail(data))
               ELSE m :
               r \in {NormalizeObj(Head(data))}})

RECURSIVE StoreObjects(_, _)
\* The "for obj in data" loop over a parsed list.
StoreObjects(m, data) ==
    IF data = <<>> THEN m
    ELSE StoreObjects(Only({IF r.k = "store" THEN Put(m, r.url, r.rec) ELSE m :
                            r \in {NormalizeObj(Head(data))}}),
                      Tail(data))

(***************************************************************************)
(* json.loads, as parse_json_lenient calls it (run.py 363, 371, 380, 386)  *)
(*                                                                         *)
(* The text is read character by character, the way the json module does:  *)
(* white space is the space, tab, line feed and carriage return; a string  *)
(* literal holds no control character written raw; NaN, Infinity and       *)
(* -Infinity are read as numbers. A number is kept exactly, so the model   *)
(* reads the literals whose digits fit a 32-bit integer; a float literal   *)
(* past the range of a double is an infinity, one below it is zero.        *)
(***************************************************************************)
Fail == [ok |-> FALSE]

IsDigit(c) == c \in {"0", "1", "2", "3", "4", "5", "6", "7", "8", "9"}

RECURSIVE SkipWs(_, _)
\* WHITESPACE.match(s, i).end(): the white space of JSON is " \t\n\r"
SkipWs(s, i) ==
    IF i <= Len(s) /\ s[i] \in {" ", "\t", "\n", "\r"} THEN SkipWs(s, i + 1) ELSE i

RECURSIVE DigitsEnd(_, _)
\* The index after the run of digits that starts at i
DigitsEnd(s, i) == IF i <= Len(s) /\ IsDigit(s[i]) THEN DigitsEnd(s, i + 1) ELSE i

\* Whether text lit is written in s from index i on
LitAt(s, i, lit) == i + Len(lit) - 1 <= Len(s) /\ SubSeq(s, i, i + Len(lit) - 1) = lit

RECURSIVE DecValue(_, _)
\* int(ds) of a run of digits, no larger than cap when cap > 0. Exponents are
\* read with the cap 1000: any larger one gives an infinity or a zero just
\* the same.
DecValue(ds, cap) ==
    LET Next(hi, digit) == IF cap > 0 /\ hi >= cap THEN cap ELSE 10 * hi + digit
    IN IF ds = <<>> THEN 0
       ELSE Next(DecValue(SubSeq(ds, 1, Len(ds) - 1), cap),
                 CodePoint(ds[Len(ds)]) - 48)

RECURSIVE DropZeros(_)
DropZeros(ds) == IF ds # <<>> /\ Head(ds) = "0" THEN DropZeros(Tail(ds)) ELSE ds

\* float(text) of the literal with the digits ds before the exponent, frac
\* of them after the point, and the exponent ex: the exact value where a
\* double is far from its limits, an infinity from 1e309 on, zero below
\* 1e-324.
FloatValue(neg, ds, frac, ex) ==
    LET sig == DropZeros(ds)
        top == Len(sig) - frac + ex
        m   == DecValue(sig, 0)
        e10 == ex - frac
    IN IF sig = <<>> THEN Num(0, 1)
       ELSE IF top >= 310 THEN JNonFinite(IF neg THEN "-Infinity" ELSE "Infinity")
       ELSE IF top <= -324 THEN Num(0, 1)
       ELSE IF e10 >= 0 THEN Num((IF neg THEN -m ELSE m) * Pow(10, e10), 1)
       ELSE Num(IF neg THEN -m ELSE m, Pow(10, -e10))

\* The number literal at index i, by NUMBER_RE of json.scanner:
\* (-?(?:0|[1-9][0-9]*))(\.[0-9]+)?([eE][-+]?[0-9]+)?
\* neg is its sign and a the index after the sign, b the end of its integer
\* part ("0", or a digit from 1 to 9 and digits), c the end of its fraction (a
\* point and a digit at least), x the first digit and y the end of its
\* exponent ("e" or "E", a sign or none, a digit at least; y = x: none).
ScanNumber(s, i) ==
    LET neg == s[i] = "-"
        Number(a, b, c, x, y) ==
            IF b = a THEN Fail
            ELSE IF c = b /\ y = x
                 THEN [ok |-> TRUE,
                       v |-> Num(IF neg THEN 0 - DecValue(SubSeq(s, a, b - 1), 0)
                                 ELSE DecValue(SubSeq(s, a, b - 1), 0), 1),
                       next |-> b]
            ELSE [ok |-> TRUE,
                  v |-> FloatValue(neg,
                                   SubSeq(s, a, b - 1)
                                   \o (IF c > b THEN SubSeq(s, b + 1, c - 1) ELSE <<>>),
                                   IF c > b THEN c - b - 1 ELSE 0,
                                   IF y = x THEN 0
                                   ELSE IF s[x - 1] = "-"
                                        THEN 0 - DecValue(SubSeq(s, x, y - 1), 1000)
                                        ELSE DecValue(SubSeq(s, x, y - 1), 1000)),
                  next |-> IF y = x THEN c ELSE y]
        Exponent(a, b, c, x) ==
            IF c <= Len(s) /\ s[c] \in {"e", "E"}
            THEN Number(a, b, c, x, DigitsEnd(s, x))
            ELSE Number(a, b, c, x, x)
        Fraction(a, b, c) ==
            Exponent(a, b, c,
                     IF c + 1 <= Len(s) /\ s[c + 1] \in {"+", "-"} THEN c + 2
                     ELSE c + 1)
        IntPart(a, b) ==
            Fraction(a, b,
                     IF b + 1 <= Len(s) /\ s[b] = "." /\ IsDigit(s[b + 1])
                     THEN DigitsEnd(s, b + 1) ELSE b)
        Mantissa(a) ==
            IntPart(a, IF a > Len(s) THEN a
                       ELSE IF s[a] = "0" THEN a + 1
                       ELSE DigitsEnd(s, a))
    IN Mantissa(IF neg THEN i + 1 ELSE i)

\* The character each one-letter escape stands for (BACKSLASH of json.decoder)
SimpleEscapes ==
    ("\"" :> "\"") @@ ("\\" :> "\\") @@ ("/" :> "/") @@ ("b" :> "U+0008") @@
    ("f" :> "\f") @@ ("n" :> "\n") @@ ("r" :> "\r") @@ ("t" :> "\t")

\* Whether s holds four hexadecimal digits from index i on
IsHex4(s, i) == i + 3 <= Len(s) /\ \A j \in i..(i + 3) : s[j] \in DOMAIN HexMap

Hex4(s, i) == HexValue(SubSeq(s, i, i + 3))

RECURSIVE BackslashesBefore(_, _, _)
\* The length of the run of backslashes that ends at index j, from index i on
BackslashesBefore(s, i, j) ==
    IF j >= i /\ s[j] = "\\" THEN 1 + BackslashesBefore(s, i, j - 1) ELSE 0

\* The index of the first closing quote from index i on, the first character
\* of a string literal, 0 when there is none: a quote closes the literal
\* when no escape takes it, an even number of backslashes right before it.
CloseQuote(s, i) ==
    LET Closes(j) == s[j] = "\"" /\ BackslashesBefore(s, i, j - 1) % 2 = 0
    IN IF \E j \in i..Len(s) : Closes(j)
       THEN CHOOSE j \in i..Len(s) : Closes(j) /\ \A x \in i..(j - 1) : ~Closes(x)
       ELSE 0

RECURSIVE Decode(_, _, _, _)
\* The characters the text of a string literal, from index a to index b,
\* stands for, after acc: Fail for a control character written raw or an
\* escape json does not know. Two \u escapes that are a surrogate pair give
\* one character.
Decode(s, a, b, acc) ==
    LET \* the index of the first backslash, b + 1 when there is none
        next_backslash ==
            IF \E x \in a..b : s[x] = "\\"
            THEN CHOOSE x \in a..b : s[x] = "\\" /\ \A y \in a..(x - 1) : s[y] # "\\"
            ELSE b + 1
        Escape(p) ==
            IF \E x \in a..(p - 1) : CodePoint(s[x]) < 32 THEN Fail
            ELSE IF p > b THEN [ok |-> TRUE, v |-> JStr(acc \o SubSeq(s, a, p - 1))]
            ELSE IF s[p + 1] \in DOMAIN SimpleEscapes
                 THEN Decode(s, p + 2, b,
                             Append(acc \o SubSeq(s, a, p - 1),
                                    SimpleEscapes[s[p + 1]]))
            ELSE IF s[p + 1] # "u" \/ p + 5 > b \/ ~IsHex4(s, p + 2) THEN Fail
            ELSE IF /\ Hex4(s, p + 2) \in 55296..56319
                    /\ p + 11 <= b
                    /\ LitAt(s, p + 6, <<"\\", "u">>)
                    /\ IsHex4(s, p + 8)
                    /\ Hex4(s, p + 8) \in 56320..57343
                 THEN Decode(s, p + 12, b,
                             Append(acc \o SubSeq(s, a, p - 1),
                                    CharOf(65536 + (Hex4(s, p + 2) - 55296) * 1024
                                           + (Hex4(s, p + 8) - 56320))))
            ELSE Decode(s, p + 6, b,
                        Append(acc \o SubSeq(s, a, p - 1), CharOf(Hex4(s, p + 2))))
    IN Escape(next_backslash)

\* scanstring(s, i): the string literal whose characters start at index i,
\* after the opening quote, up to the first quote no escape takes.
ScanString(s, i) ==
    LET Read(r, next) ==
            IF r.ok THEN [ok |-> TRUE, v |-> r.v, next |-> next] ELSE Fail
        Upto(q) == IF q = 0 THEN Fail ELSE Read(Decode(s, i, q - 1, <<>>), q + 1)
    IN Upto(CloseQuote(s, i))

ObjKeys == {Chars("url"), Chars("bullets"), Chars("companies"),
            Chars("significance"), Chars("category")}

FieldOr(fields, name) == IF name \in DOMAIN fields THEN fields[name] ELSE None

\* The names of the members read, each at its first occurrence.
RECURSIVE KeyOrder(_, _)
KeyOrder(names, seen) ==
    IF names = <<>> THEN <<>>
    ELSE IF Head(names) \in seen THEN KeyOrder(Tail(names), seen)
    ELSE <<Head(names)>> \o KeyOrder(Tail(names), seen \cup {Head(names)})

\* The dict json builds from the members read (a repeated key keeps the last
\* value and its first place), seen through obj.get on the five keys the
\* code reads; names are the member names in the order read.
ObjOf(fields, names) ==
    [k |-> "obj",
     url |-> FieldOr(fields, Chars("url")),
     bullets |-> FieldOr(fields, Chars("bullets")),
     companies |-> FieldOr(fields, Chars("companies")),
     significance |-> FieldOr(fields, Chars("significance")),
     category |-> FieldOr(fields, Chars("category")),
     keys |-> KeyOrder(names, {})]

RECURSIVE ParseValue(_, _)
RECURSIVE ParseArray(_, _, _)
RECURSIVE ParseObject(_, _, _, _)
\* The JSON value at index i, and the index after it
ParseValue(s, i) ==
    LET \* after "{" and white space: the empty dict, or members
        Object(j) ==
            IF j <= Len(s) /\ s[j] = "}"
            THEN [ok |-> TRUE, v |-> ObjOf(<<>>, <<>>), next |-> j + 1]
            ELSE ParseObject(s, j, <<>>, <<>>)
        \* after "[" and white space: the empty list, or elements
        Array(j) ==
            IF j <= Len(s) /\ s[j] = "]"
            THEN [ok |-> TRUE, v |-> JList(<<>>), next |-> j + 1]
            ELSE ParseArray(s, j, <<>>)
    IN
    IF i > Len(s) THEN Fail
    ELSE IF s[i] = "\"" THEN ScanString(s, i + 1)
    ELSE IF s[i] = "{" THEN Object(SkipWs(s, i + 1))
    ELSE IF s[i] = "[" THEN Array(SkipWs(s, i + 1))
    ELSE IF LitAt(s, i, Chars("null"))
         THEN [ok |-> TRUE, v |-> None, next |-> i + 4]
    ELSE IF LitAt(s, i, Chars("true"))
         THEN [ok |-> TRUE, v |-> JBool(TRUE), next |-> i + 4]
    ELSE IF LitAt(s, i, Chars("false"))
         THEN [ok |-> TRUE, v |-> JBool(FALSE), next |-> i + 5]
    ELSE IF LitAt(s, i, Chars("NaN"))
         THEN [ok |-> TRUE, v |-> JNonFinite("NaN"), next |-> i + 3]
    ELSE IF LitAt(s, i, Chars("Infinity"))
         THEN [ok |-> TRUE, v |-> JNonFinite("Infinity"), next |-> i + 8]
    ELSE IF LitAt(s, i, Chars("-Infinity"))
         THEN [ok |-> TRUE, v |-> JNonFinite("-Infinity"), next |-> i + 9]
    ELSE ScanNumber(s, i)

\* The elements of an array from index i on, acc the elements read so far:
\* after an element and the white space that follows it, the end, or a comma
\* and the next element.
ParseArray(s, i, acc) ==
    LET After(got, j) ==
            IF j > Len(s) THEN Fail
            ELSE IF s[j] = "]" THEN [ok |-> TRUE, v |-> JList(got), next |-> j + 1]
            ELSE IF s[j] = "," THEN ParseArray(s, SkipWs(s, j + 1), got)
            ELSE Fail
        Element(r) ==
            IF r.ok THEN After(Append(acc, r.v), SkipWs(s, r.next)) ELSE Fail
    IN Element(ParseValue(s, i))

\* The members of an object from index i on, fields the members read so far
\* and names their names in the order read: a name, a colon, a value, then
\* the end, or a comma and the next member.
ParseObject(s, i, fields, names) ==
    LET After(got, read, j) ==
            IF j > Len(s) THEN Fail
            ELSE IF s[j] = "}"
                 THEN [ok |-> TRUE, v |-> ObjOf(got, read), next |-> j + 1]
            ELSE IF s[j] = "," THEN ParseObject(s, SkipWs(s, j + 1), got, read)
            ELSE Fail
        Member(name, r) ==
            IF r.ok
            THEN After((name :> r.v) @@ fields, Append(names, name),
                       SkipWs(s, r.next))
            ELSE Fail
        Colon(name, c) ==
            IF c > Len(s) \/ s[c] # ":" THEN Fail
            ELSE Member(name, ParseValue(s, SkipWs(s, c + 1)))
        Name(key) ==
            IF key.ok THEN Colon(key.v.s, SkipWs(s, key.next)) ELSE Fail
    IN IF i > Len(s) \/ s[i] # "\"" THEN Fail
       ELSE Name(ScanString(s, i + 1))

\* json.loads(s): the whole text is one JSON value between white space, else
\* an exception.
JsonLoads(s) ==
    LET Whole(r) ==
            IF r.ok /\ SkipWs(s, r.next) = Len(s) + 1
            THEN [ok |-> TRUE, v |-> r.v] ELSE Fail
    IN Whole(ParseValue(s, SkipWs(s, 1)))

(***************************************************************************)
(* parse_json_lenient (run.py 347-390)                                     *)
(***************************************************************************)
\* The code fence: three grave accents
Fence == <<"U+0060", "U+0060", "U+0060">>

\* _strip_fences: the text stripped; when it starts with a fence, the fence
\* and a "json" in any case right after it go, then a fence at the end, each
\* time stripping.
StripFences(text) ==
    LET s == Strip(text)
    IN IF StartsWith(s, Fence)
       THEN LET a == SubSeq(s, 4, Len(s))
                b == Strip(IF Len(a) >= 4 /\ Fold(SubSeq(a, 1, 4)) = Chars("json")
                           THEN SubSeq(a, 5, Len(a)) ELSE a)
            IN IF EndsWith(b, Fence) THEN Strip(SubSeq(b, 1, Len(b) - 3)) ELSE b
       ELSE s

\* "".join(ch for ch in s if ch == "\n" or 32 <= ord(ch) <= 126): every
\* other character goes and its neighbours meet.
DropControl(s) ==
    LET KeptChar(c) == c = "\n" \/ CodePoint(c) \in 32..126
    IN SelectSeq(s, KeptChar)

RECURSIVE SkipSpace(_, _)
\* The index after the run of \s that starts at i
SkipSpace(s, i) == IF i <= Len(s) /\ IsSpace(s[i]) THEN SkipSpace(s, i + 1) ELSE i

RECURSIVE BeforeSpace(_, _)
\* The index before the run of \s that ends at i
BeforeSpace(s, i) == IF i >= 1 /\ IsSpace(s[i]) THEN BeforeSpace(s, i - 1) ELSE i

\* Whether ",\s*([\]}])" matches at the comma of index c
CommaMatches(s, c) ==
    LET j == SkipSpace(s, c + 1)
    IN c >= 1 /\ s[c] = "," /\ j <= Len(s) /\ s[j] \in {"]", "}"}

\* re.sub(r",\s*([\]}])", r"\1", s): a comma, the white space after it and
\* the "]" or "}" that follows become that bracket, wherever in the text.
FixCommas(s) ==
    LET Gone(i) ==
            IF IsSpace(s[i]) THEN CommaMatches(s, BeforeSpace(s, i))
            ELSE CommaMatches(s, i)
        marked == [i \in 1..Len(s) |-> IF Gone(i) THEN "" ELSE s[i]]
        Kept(c) == c # ""
    IN SelectSeq(marked, Kept)

\* re.search(open [\s\S]* close, s).group(0): from the first open character
\* to the last close character of the text; <<>> stands for no match.
Span(s, open, close) ==
    LET first ==
            IF \E i \in 1..Len(s) : s[i] = open
            THEN CHOOSE i \in 1..Len(s) :
                    s[i] = open /\ \A j \in 1..(i - 1) : s[j] # open
            ELSE 0
        last ==
            IF \E i \in 1..Len(s) : s[i] = close
            THEN CHOOSE i \in 1..Len(s) :
                    s[i] = close /\ \A j \in (i + 1)..Len(s) : s[j] # close
            ELSE 0
        FromTo(a, b) == IF 0 < a /\ a < b THEN SubSeq(s, a, b) ELSE <<>>
    IN FromTo(first, last)

\* "data if isinstance(data, list) else [data]"
AsDataList(v) == IF v.k = "list" THEN v.items ELSE <<v>>

Parsed(items) == [k |-> "data", items |-> items]

\* parse_json_lenient(text): Parsed(list), or None. Each of the four try
\* blocks returns what json.loads gave, a single value in a list (always
\* when wrapped), or the code goes on; a match is loaded with its commas
\* fixed.
parse_json_lenient(text) ==
    LET Try(d, wrapped, otherwise) ==
            IF d.ok THEN Parsed(IF wrapped THEN <<d.v>> ELSE AsDataList(d.v))
            ELSE otherwise
        LoadsMatch(m) == IF m = <<>> THEN Fail ELSE JsonLoads(FixCommas(m))
        Cleaned(s) ==
            Try(JsonLoads(s), FALSE,
                Try(LoadsMatch(Span(s, "[", "]")), FALSE,
                    Try(LoadsMatch(Span(s, "{", "}")), TRUE,
                        Try(JsonLoads(FixCommas(s)), FALSE, None))))
    IN Cleaned(DropControl(StripFences(text)))

(***************************************************************************)
(* State                                                                   *)
(***************************************************************************)
VARIABLES
    api_key,          \* summarize_bullets: whether GEMINI_API_KEY is set
    items,            \* summarize_bullets: its argument, as the list of URLs
    pc,               \* control point of summarize_bullets / _call_gemini
    batch_no,         \* number of batches of chunk(items, n) already left
    out,              \* summarize_bullets: the dict out
    raw,              \* summarize_bullets: raw, the text the batch's call returned
    call,             \* the running _call_gemini: who called, model, prompt,
                      \*   attempt, last_exc, the caught exception e, its outcome
    next_allowed_in,  \* RateLimiter._next_allowed, as ticks from now (0: past)
    ages,             \* ticks since each model invocation of the last minute
    batch_calls,      \* the _call_gemini calls made for the current batch
    d_pc,             \* semantic_dedup: "in", "once" (applied), "twice"
    d_items,          \* semantic_dedup: its argument, items named 1..n
    d_sim,            \* semantic_dedup: sim, in hundredths, by pair of items
    d_out,            \* semantic_dedup(d_items)
    d_sim2,           \* semantic_dedup: sim of the call on d_out, by pair of items
    d_out2,           \* semantic_dedup(d_out)
    m_pc,             \* main: control point
    m_src,            \* scrape: index in SOURCES of the source to visit next
    m_items,          \* scrape: items; then main: candidates
    m_scraped,        \* scrape: items as collected, before the URL-dedup
    m_unique,         \* main: unique
    m_batch,          \* summarize_bullets in main: batches done
    m_smap,           \* main: s_map
    m_final,          \* main: final_items
    m_out,            \* the document written to the week and day files
    m_exc,            \* the exception main ended by, and the call it left
    f_pc,             \* a function applied on its own: "in", then "done"
    f_fn,             \* the function applied
    f_in,             \* its argument
    f_out             \* what it returned

summ_vars == <<api_key, items, pc, batch_no, out, raw, call, next_allowed_in,
               ages, batch_calls>>

dedup_vars == <<d_pc, d_items, d_sim, d_out, d_sim2, d_out2>>

main_vars == <<m_pc, m_src, m_items, m_scraped, m_unique, m_batch, m_smap, m_final,
               m_out, m_exc>>

fun_vars == <<f_pc, f_fn, f_in, f_out>>

vars == <<summ_vars, dedup_vars, main_vars, fun_vars>>

\* What an action of summarize_bullets leaves alone
not_summ == <<dedup_vars, main_vars, fun_vars>>

\* What an action of semantic_dedup leaves alone
not_dedup == <<summ_vars, main_vars, fun_vars>>

\* What an action of main leaves alone
not_main == <<summ_vars, dedup_vars, fun_vars>>

\* What the application of a function on its own leaves alone
not_fun == <<summ_vars, dedup_vars, main_vars>>

(***************************************************************************)
(* Tunables of the model caller (run.py 482-488)                           *)
(***************************************************************************)
\* SUMM_BATCH_SIZE, default 3
SUMM_BATCH_SIZE == 3

\* GEMINI_MAX_RETRIES (default 6): max_retries
GEMINI_MAX_RETRIES == 6

\* GEMINI_RPM (default 10): rpm
GEMINI_RPM == 2

\* RateLimiter.interval = 60 / rpm, in clock ticks: a tick is
\* 60 / (rpm * IntervalTicks) seconds.
IntervalTicks == 2

Interval == IntervalTicks

\* 60 seconds, in ticks
Minute == GEMINI_RPM * Interval

\* Longest blocking time of one generate_content call, in ticks
MaxCallTicks == 1

\* Longest backoff sleep, in ticks: the sixth backoff, 64 s and its jitter,
\* is 86.4 s at most
MaxSleepTicks == 6

\* GEMINI_BACKOFF_BASE (default 2.0), in milliseconds
BACKOFF_BASE_MS == 2000

\* GEMINI_BACKOFF_JITTER (default 0.35), in hundredths
JITTER_PCT == 35

\* Most candidates handed to summarize_bullets
MaxItems == 4

\* The URL of candidate i, a string
Url(i) == JStr(Chars("u" \o ToString(i)))

\* chunk(seq, n): the number of batches, and batch k (from 0)
NumBatches(seq, n) == (Len(seq) + n - 1) \div n

Chunk(seq, n, k) == SubSeq(seq, k * n + 1, Min(Len(seq), (k + 1) * n))

(***************************************************************************)
(* What the model API can answer (the environment of run.py 430)           *)
(***************************************************************************)
\* repr of the number n / d in decimal
NumText(v) ==
    LET abs   == IF v.n < 0 THEN -v.n ELSE v.n
        width == Len(ToString(v.d)) - 1
        frac  == ToString(abs % v.d)
        pad   == [i \in 1..(width - Len(frac)) |-> "0"]
    IN (IF v.n < 0 THEN <<"-">> ELSE <<>>) \o Chars(ToString(abs \div v.d))
       \o (IF v.d = 1 THEN <<>> ELSE <<".">> \o pad \o Chars(frac))

\* A character inside a string literal: a quote, a backslash, a control
\* character and a character that is no ASCII are written as their escape
\* sequence.
EscapeChar(c) ==
    LET cp == CodePoint(c)
        u(n) == <<"\\", "u">> \o Chars(HexText(n, 4))
    IN CASE c = "\"" -> <<"\\", "\"">>
         [] c = "\\" -> <<"\\", "\\">>
         [] c = "\n" -> <<"\\", "n">>
         [] c = "\r" -> <<"\\", "r">>
         [] c = "\t" -> <<"\\", "t">>
         [] c = "\f" -> <<"\\", "f">>
         [] cp \in 32..126 -> <<c>>
         [] cp > 65535 -> u(55296 + ((cp - 65536) \div 1024))
                          \o u(56320 + ((cp - 65536) % 1024))
         [] OTHER -> u(cp)

RECURSIVE DumpStr(_)
DumpStr(cs) == IF cs = <<>> THEN <<>> ELSE EscapeChar(Head(cs)) \o DumpStr(Tail(cs))

\* What a dict holds under one of its keys
Member(v, key) ==
    CASE key = Chars("url") -> v.url
      [] key = Chars("bullets") -> v.bullets
      [] key = Chars("companies") -> v.companies
      [] key = Chars("significance") -> v.significance
      [] key = Chars("category") -> v.category
      [] OTHER -> None

RECURSIVE Dump(_)
RECURSIVE DumpList(_)
RECURSIVE DumpMembers(_, _)
\* The text of a JSON value, as json.dumps writes it.
Dump(v) ==
    CASE v.k = "null" -> Chars("null")
      [] v.k = "bool" -> Chars(IF v.b THEN "true" ELSE "false")
      [] v.k = "num" -> NumText(v)
      [] v.k = "nonfinite" -> Chars(v.v)
      [] v.k = "str" -> <<"\"">> \o DumpStr(v.s) \o <<"\"">>
      [] v.k = "list" -> <<"[">> \o DumpList(v.items) \o <<"]">>
      [] v.k = "obj" -> <<"{">> \o DumpMembers(v, v.keys) \o <<"}">>

DumpList(xs) ==
    IF xs = <<>> THEN <<>>
    ELSE IF Len(xs) = 1 THEN Dump(Head(xs))
    ELSE Dump(Head(xs)) \o <<",", " ">> \o DumpList(Tail(xs))

DumpMembers(v, keys) ==
    IF keys = <<>> THEN <<>>
    ELSE <<"\"">> \o DumpStr(Head(keys)) \o <<"\"", ":", " ">>
         \o Dump(Member(v, Head(keys)))
         \o (IF Len(keys) = 1 THEN <<>> ELSE <<",", " ">> \o DumpMembers(v, Tail(keys)))

\* "hr tech": snaps to "HR Tech & AI"
CatHrTech == Chars("hr tech")

\* "Unknown": snaps to nothing
CatUnknown == Chars("Unknown")

ObjFirst ==
    JObj(Url(1),
         JList(<<JStr(<<"-"," ","a">>), JStr(<<"b">>)>>),
         JList(<<JStr(<<"X">>), JStr(<<"x">>)>>),
         JNum(40), JStr(CatHrTech))

ObjSecond ==
    JObj(Url(2), JStr(<<"c">>), None, JStr(<<"2">>), JStr(CatUnknown))

ObjFirstAgain ==
    JObj(Url(1), JList(<<JStr(<<"d">>)>>), JStr(<<"Y">>), JNum(79),
         JStr(CATEGORY_TAXONOMY[11]))

ObjNoUrl == JObj(None, JList(<<>>), JList(<<>>), JNum(50), JStr(CatHrTech))

\* category 5: a truthy non-string, snap_to_taxonomy raises on it
ObjBadCategory == JObj(Url(3), None, None, JNum(50), JNum(50))

\* An object of significance 3 with an unknown category, for a third URL
ObjThird ==
    JObj(Url(3), JList(<<JStr(<<"e">>)>>), JList(<<JStr(<<"x">>)>>),
         JNum(30), JStr(CatUnknown))

\* A single object, not in an array, between white space
TextObject == <<" ">> \o Dump(ObjThird) \o <<"\n">>

\* A well-formed array of two objects
TextArray == Dump(JList(<<ObjFirst, ObjSecond>>))

\* A fenced array with a trailing comma
TextFenced ==
    Fence \o Chars("json") \o <<"\n", "[">> \o Dump(ObjFirstAgain) \o <<",", "\n">>
    \o Dump(ObjNoUrl) \o <<",", "\n">> \o Dump(ObjBadCategory)
    \o <<",", "\n", "]", "\n">> \o Fence

\* Prose with no JSON in it
TextJunk == Chars("Sorry, I cannot help with that.")

\* White space only
TextBlank == <<" ", "\n">>

ModelTexts == {TextArray, TextFenced, TextObject, TextJunk}

\* str(e) of an exception, by the markers the code searches it for, and the
\* seconds of its "retry_delay { seconds: N }" (0 when it has none).
Exc(type, msg, markers, retry_delay) ==
    [k |-> "exc", type |-> type, msg |-> msg, markers |-> markers,
     retry_delay |-> retry_delay]

\* raise RuntimeError("Empty response from model")
ErrEmpty == Exc("RuntimeError", "Empty response from model", {}, 0)

\* raise RuntimeError("Unknown failure in _call_gemini")
ErrUnknown == Exc("RuntimeError", "Unknown failure in _call_gemini", {}, 0)

Err429Delay ==
    Exc("ResourceExhausted", "429 Resource exhausted. retry_delay { seconds: 1 }",
        {"429"}, 1)

ErrRateLimit == Exc("ResourceExhausted", "Rate limit exceeded", {"rate limit"}, 0)

ErrDeadline == Exc("DeadlineExceeded", "504 Deadline Exceeded", {"deadline"}, 0)

ErrInvalid == Exc("InvalidArgument", "400 API key not valid", {}, 0)

ModelErrors == {Err429Delay, ErrRateLimit, ErrDeadline, ErrInvalid}

RespText(text) == [k |-> "text", text |-> text]

RespError(e) == [k |-> "error", exc |-> e]

\* Every outcome of model.generate_content(prompt): a text (<<>>: none or
\* empty), or an exception.
Responses ==
    {RespText(t) : t \in ModelTexts \cup {<<>>, TextBlank}}
    \cup {RespError(e) : e \in ModelErrors}

(***************************************************************************)
(* RateLimiter and _call_gemini (run.py 395-460)                           *)
(***************************************************************************)
RATE_LIMIT_MARKERS == {"429", "rate limit"}

TRANSIENT_MARKERS == {"deadline", "timeout", "temporar", "unavailable"}

\* if "429" in err_s or "rate limit" in err_s.lower()
IsRateLimit(e) == e.markers \cap RATE_LIMIT_MARKERS # {}

\* Fault: every error that is no rate limit is taken for a transient one
IsTransientCatchAll(e) == TRUE

\* if any(t in err_s.lower() for t in ["deadline", "timeout", ...])
IsTransient(e) == e.markers \cap TRANSIENT_MARKERS # {}

Recent(a) == a < Minute

\* The invocation ages after d more ticks; those a minute old are dropped.
Age(as, d) == SelectSeq([i \in 1..Len(as) |-> as[i] + d], Recent)

\* RateLimiter.wait sleeps for the ticks that remain until _next_allowed
WaitSleep(remaining) == remaining

\* Fault: the interval is added to now, the clock value read before the sleep
NextAllowedFromStaleNow(slept) == Interval - slept

\* self._next_allowed = time.time() + self.interval, read after the sleep
NextAllowedAfterWait(slept) == Interval

\* The _call_gemini that who ("primary", "fallback", "reformat") starts. Beside
\* the function's locals it counts the model invocations and the backoff
\* sleeps made, the non-empty texts received, and keeps the last response.
NewCall(who, model, prompt) ==
    [who |-> who, model |-> model, prompt |-> prompt, attempt |-> 0,
     last_exc |-> None, exc |-> None, status |-> "running", value |-> None,
     invocations |-> 0, sleeps |-> 0, texts_seen |-> 0, last_resp |-> None]

NoCall == NewCall("nobody", "none", None)

\* Fault: range(max_retries + 1)
MoreAttemptsOffByOne(c) == c.attempt <= GEMINI_MAX_RETRIES

\* for attempt in range(max_retries): whether another pass is made
MoreAttempts(c) == c.attempt < GEMINI_MAX_RETRIES

\* last_exc = e
LastExc(c) == c.exc

\* One pass of the retry loop up to the except clause: limiter.wait(), then
\* model.generate_content(prompt), which answers resp after d ticks; the
\* text is returned stripped, and one that strips to nothing is an error.
Attempt(resp, d) ==
    /\ pc = "attempt"
    /\ MoreAttempts(call)
    /\ LET slept   == WaitSleep(next_allowed_in)
           atCall  == <<0>> \o Age(ages, slept)
       IN /\ ages' = Age(atCall, d)
          /\ next_allowed_in' = Max(0, NextAllowedAfterWait(slept) - d)
    /\ IF resp.k = "text" /\ Strip(resp.text) # <<>>
       THEN /\ call' = [call EXCEPT !.status = "returned",
                                    !.value = RespText(Strip(resp.text)),
                                    !.invocations = @ + 1,
                                    !.texts_seen = @ + 1, !.last_resp = resp]
            /\ pc' = "call_done"
       ELSE /\ call' = [call EXCEPT !.exc = IF resp.k = "text" THEN ErrEmpty
                                             ELSE resp.exc,
                                    !.invocations = @ + 1, !.last_resp = resp]
            /\ pc' = "except"
    /\ UNCHANGED <<api_key, items, batch_no, out, raw, batch_calls>>
    /\ UNCHANGED not_summ

\* The ticks the clock can advance by during a sleep of lo to hi
\* milliseconds: a tick is 60000 / Minute milliseconds.
TicksOf(lo, hi) ==
    Min(MaxSleepTicks, (lo * Minute) \div 60000)
    .. Min(MaxSleepTicks, (hi * Minute + 59999) \div 60000)

\* The sleep after a 429: srv_delay + random.uniform(0, 0.5) when the error
\* carries a retry_delay, else base_backoff * 2 ** attempt with its jitter,
\* half a second at least.
RateLimitSleep(e, attempt) ==
    IF e.retry_delay > 0
    THEN TicksOf(1000 * e.retry_delay, 1000 * e.retry_delay + 500)
    ELSE LET sleep_for == BACKOFF_BASE_MS * Pow(2, attempt)
         IN TicksOf(Max(500, (sleep_for * (100 - JITTER_PCT)) \div 100),
                    Max(500, (sleep_for * (100 + JITTER_PCT)) \div 100))

\* time.sleep(1.5 + random.uniform(0, 0.5))
TransientSleep == TicksOf(1500, 2000)

\* time.sleep(d) in the except clause
Sleep(d) ==
    /\ ages' = Age(ages, d)
    /\ next_allowed_in' = Max(0, next_allowed_in - d)

\* except, a 429 / rate limit error: sleep, last_exc = e, continue
RetryRateLimit(d) ==
    /\ pc = "except"
    /\ IsRateLimit(call.exc)
    /\ d \in RateLimitSleep(call.exc, call.attempt)
    /\ Sleep(d)
    /\ call' = [call EXCEPT !.last_exc = LastExc(call), !.attempt = @ + 1,
                            !.sleeps = @ + 1]
    /\ pc' = "attempt"
    /\ UNCHANGED <<api_key, items, batch_no, out, raw, batch_calls>>
    /\ UNCHANGED not_summ

\* except, a transient network error: sleep, last_exc = e, continue
RetryTransient(d) ==
    /\ pc = "except"
    /\ ~IsRateLimit(call.exc)
    /\ IsTransient(call.exc)
    /\ d \in TransientSleep
    /\ Sleep(d)
    /\ call' = [call EXCEPT !.last_exc = LastExc(call), !.attempt = @ + 1,
                            !.sleeps = @ + 1]
    /\ pc' = "attempt"
    /\ UNCHANGED <<api_key, items, batch_no, out, raw, batch_calls>>
    /\ UNCHANGED not_summ

\* except, any other error: raise
Reraise ==
    /\ pc = "except"
    /\ ~IsRateLimit(call.exc)
    /\ ~IsTransient(call.exc)
    /\ call' = [call EXCEPT !.status = "raised", !.value = call.exc]
    /\ pc' = "call_done"
    /\ UNCHANGED <<api_key, items, batch_no, out, raw, next_allowed_in, ages,
                   batch_calls>>
    /\ UNCHANGED not_summ

\* The loop ran max_retries times: raise last_exc, or the RuntimeError
Exhausted ==
    /\ pc = "attempt"
    /\ ~MoreAttempts(call)
    /\ call' = [call EXCEPT !.status = "raised",
                            !.value = IF call.last_exc # None THEN call.last_exc
                                      ELSE ErrUnknown]
    /\ pc' = "call_done"
    /\ UNCHANGED <<api_key, items, batch_no, out, raw, next_allowed_in, ages,
                   batch_calls>>
    /\ UNCHANGED not_summ

(***************************************************************************)
(* summarize_bullets (run.py 472-604)                                      *)
(***************************************************************************)
\* GEMINI_MODEL_PRIMARY and GEMINI_MODEL_FALLBACK, at their defaults
model_primary == "gemini-2.0-flash"

model_fallback == "gemini-2.0-flash-lite"

\* The prompt built for batch k
Prompt(k) == [kind |-> "summarize", batch |-> Chunk(items, SUMM_BATCH_SIZE, k)]

\* fix_prompt: the reformat instruction followed by raw
FixPrompt(text) == [kind |-> "reformat", raw |-> text]

\* The model the reformat follow-up is sent to: the local variable model,
\* bound once to make_model(model_primary)
ReformatModel(c) == model_primary

Started(c) == [who |-> c.who, model |-> c.model, prompt |-> c.prompt,
               outcome |-> "running"]

\* The entry of the call that just ended, with its outcome
Ended(calls, c) == [calls EXCEPT ![Len(calls)].outcome = c.status]

\* The api key check
Enter ==
    /\ pc = "start"
    /\ pc' = IF api_key THEN "loop" ELSE "returned"
    /\ UNCHANGED <<api_key, items, batch_no, out, raw, call, next_allowed_in,
                   ages, batch_calls>>
    /\ UNCHANGED not_summ

\* for batch in chunk(items, SUMM_BATCH_SIZE): the prompt, the primary call
NextBatch ==
    /\ pc = "loop"
    /\ batch_no < NumBatches(items, SUMM_BATCH_SIZE)
    /\ call' = NewCall("primary", model_primary, Prompt(batch_no))
    /\ batch_calls' = <<Started(call')>>
    /\ pc' = "attempt"
    /\ UNCHANGED <<api_key, items, batch_no, out, raw, next_allowed_in, ages>>
    /\ UNCHANGED not_summ

\* return out
Return ==
    /\ pc = "loop"
    /\ batch_no >= NumBatches(items, SUMM_BATCH_SIZE)
    /\ pc' = "returned"
    /\ UNCHANGED <<api_key, items, batch_no, out, raw, call, next_allowed_in,
                   ages, batch_calls>>
    /\ UNCHANGED not_summ

\* The primary call raised: the same prompt, once, on the fallback model
PrimaryRaised ==
    /\ pc = "call_done"
    /\ call.who = "primary"
    /\ call.status = "raised"
    /\ call' = NewCall("fallback", model_fallback, call.prompt)
    /\ batch_calls' = Append(Ended(batch_calls, call), Started(call'))
    /\ pc' = "attempt"
    /\ UNCHANGED <<api_key, items, batch_no, out, raw, next_allowed_in, ages>>
    /\ UNCHANGED not_summ

\* Fault: after both models failed the same batch is taken up again
FallbackRaisedRepeatsBatch ==
    /\ pc = "call_done"
    /\ call.who = "fallback"
    /\ call.status = "raised"
    /\ batch_calls' = Ended(batch_calls, call)
    /\ pc' = "loop"
    /\ UNCHANGED <<api_key, items, batch_no, out, raw, call, next_allowed_in, ages>>
    /\ UNCHANGED not_summ

\* The fallback call raised too: continue with the next batch
FallbackRaised ==
    /\ pc = "call_done"
    /\ call.who = "fallback"
    /\ call.status = "raised"
    /\ batch_calls' = Ended(batch_calls, call)
    /\ batch_no' = batch_no + 1
    /\ pc' = "loop"
    /\ UNCHANGED <<api_key, items, out, raw, call, next_allowed_in, ages>>
    /\ UNCHANGED not_summ

\* raw = the text of the primary or the fallback call; data =
\* parse_json_lenient(raw); None starts the reformat call, a list is stored
GotRaw ==
    /\ pc = "call_done"
    /\ call.who \in {"primary", "fallback"}
    /\ call.status = "returned"
    /\ raw' = call.value.text
    /\ \E data \in {parse_json_lenient(call.value.text)} :
           IF data = None
           THEN /\ call' = NewCall("reformat", ReformatModel(call),
                                   FixPrompt(raw'))
                /\ batch_calls' = Append(Ended(batch_calls, call),
                                         Started(call'))
                /\ pc' = "attempt"
                /\ UNCHANGED <<out, batch_no>>
           ELSE /\ out' = StoreObjects(out, data.items)
                /\ batch_calls' = Ended(batch_calls, call)
                /\ batch_no' = batch_no + 1
                /\ pc' = "loop"
                /\ UNCHANGED call
    /\ UNCHANGED <<api_key, items, next_allowed_in, ages>>
    /\ UNCHANGED not_summ

\* data = parse_json_lenient(raw2), then "for obj in data": iterating None
\* raises TypeError outside every try block, and summarize_bullets ends by it
GotReformatted ==
    /\ pc = "call_done"
    /\ call.who = "reformat"
    /\ call.status = "returned"
    /\ \E data \in {parse_json_lenient(call.value.text)} :
           IF data = None
           THEN /\ pc' = "raised"
                /\ UNCHANGED <<out, batch_no>>
           ELSE /\ out' = StoreObjects(out, data.items)
                /\ batch_no' = batch_no + 1
                /\ pc' = "loop"
    /\ batch_calls' = Ended(batch_calls, call)
    /\ UNCHANGED <<api_key, items, raw, call, next_allowed_in, ages>>
    /\ UNCHANGED not_summ

\* The reformat call raised: caught, continue with the next batch
ReformatRaised ==
    /\ pc = "call_done"
    /\ call.who = "reformat"
    /\ call.status = "raised"
    /\ batch_calls' = Ended(batch_calls, call)
    /\ batch_no' = batch_no + 1
    /\ pc' = "loop"
    /\ UNCHANGED <<api_key, items, out, raw, call, next_allowed_in, ages>>
    /\ UNCHANGED not_summ

CallTicks == 0..MaxCallTicks

SleepTicks == 0..MaxSleepTicks

InitSumm ==
    /\ api_key \in BOOLEAN
    /\ \E n \in 0..MaxItems : items = [i \in 1..n |-> Url(i)]
    /\ pc = "start"
    /\ batch_no = 0
    /\ out = <<>>
    /\ raw = <<>>
    /\ call = NoCall
    /\ next_allowed_in = 0
    /\ ages = <<>>
    /\ batch_calls = <<>>

\* The other components at rest
IdleDedup ==
    /\ d_pc = "idle"
    /\ d_items = <<>>
    /\ d_sim = <<>>
    /\ d_out = <<>>
    /\ d_sim2 = <<>>
    /\ d_out2 = <<>>

IdleMain ==
    /\ m_pc = "idle"
    /\ m_src = 0
    /\ m_items = <<>>
    /\ m_scraped = <<>>
    /\ m_unique = <<>>
    /\ m_batch = 0
    /\ m_smap = <<>>
    /\ m_final = <<>>
    /\ m_out = None
    /\ m_exc = None

IdleFun ==
    /\ f_pc = "idle"
    /\ f_fn = "none"
    /\ f_in = <<>>
    /\ f_out = <<>>

Init == InitSumm /\ IdleDedup /\ IdleMain /\ IdleFun

Next ==
    \/ Enter
    \/ NextBatch
    \/ Return
    \/ \E resp \in Responses, d \in CallTicks : Attempt(resp, d)
    \/ \E d \in SleepTicks : RetryRateLimit(d)
    \/ \E d \in SleepTicks : RetryTransient(d)
    \/ Reraise
    \/ Exhausted
    \/ PrimaryRaised
    \/ FallbackRaised
    \/ GotRaw
    \/ GotReformatted
    \/ ReformatRaised

Spec == Init /\ [][Next]_vars

(***************************************************************************)
(* Properties of the model caller and the orchestrator                     *)
(***************************************************************************)
ReformatUnparsed ==
    /\ call.who = "reformat"
    /\ call.status = "returned"
    /\ parse_json_lenient(call.value.text) = None

\* C1: when the raw response of a batch does not parse and the text of the one
\* reformat call does not parse either, the batch is dropped and the run goes
\* on: summarize_bullets does not end by an exception.
C1_ReformatFailureDropsBatch == ReformatUnparsed => pc # "raised"

\* C2: an attempt that got an empty text is retried while the retry budget
\* lasts: the empty-response error reaches the caller of _call_gemini only
\* when max_retries model invocations were made.
C2_EmptyResponseRetried ==
    (call.status = "raised" /\ call.value = ErrEmpty)
        => call.invocations = GEMINI_MAX_RETRIES

NoRetryMarker(e) == e.markers \cap (RATE_LIMIT_MARKERS \cup TRANSIENT_MARKERS) = {}

\* C4: an error whose message holds neither a rate-limit signal nor a
\* transient-network marker is raised to the caller by the very next step of
\* the call, with no sleep (no tick passes) and no further model invocation.
C4_NonRetriablePropagates ==
    [][(pc = "except" /\ NoRetryMarker(call.exc))
          => /\ pc' = "call_done"
             /\ call'.status = "raised"
             /\ call'.value = call.exc
             /\ call'.invocations = call.invocations
             /\ call'.sleeps = call.sleeps
             /\ ages' = ages
             /\ next_allowed_in' = next_allowed_in]_vars

\* A call that raised a non-retriable model error after one earlier retry.
C4_Witness ==
    /\ pc = "call_done"
    /\ call.status = "raised"
    /\ call.value = ErrInvalid
    /\ call.attempt = 1
    /\ call.invocations = 2
    /\ call.sleeps = 1

CallRunning == pc \in {"attempt", "except"}

CallStep ==
    \/ \E resp \in Responses, d \in CallTicks : Attempt(resp, d)
    \/ \E d \in SleepTicks : RetryRateLimit(d)
    \/ \E d \in SleepTicks : RetryTransient(d)
    \/ Reraise
    \/ Exhausted

\* Position of a running call in its retry loop
CallRank == 2 * call.attempt + (IF pc = "except" THEN 1 ELSE 0)

C5_Outcome ==
    /\ call.invocations <= GEMINI_MAX_RETRIES
    /\ call.attempt <= GEMINI_MAX_RETRIES
    /\ CallRunning => ENABLED CallStep
    /\ call.status = "returned" =>
          /\ call.value.k = "text"
          /\ call.value.text # <<>>
          /\ call.last_resp.k = "text"
          /\ call.value.text = Strip(call.last_resp.text)
          /\ call.texts_seen = 1
    /\ (call.status = "raised" /\ call.invocations >= 1
            /\ call.attempt = call.invocations) =>
          /\ call.invocations = GEMINI_MAX_RETRIES
          /\ call.last_resp.k = "error"
          /\ call.value = call.last_resp.exc

C5_Progress == CallRunning => (pc' = "call_done" \/ (CallRunning' /\ CallRank' > CallRank))

\* C5: one _call_gemini call ends after at most max_retries model invocations
\* (a running call can always step, and every step ends it or moves it on in
\* its bounded retry loop); when it returns, it returns the text, stripped, of
\* the first response that is not empty; when every attempt failed with a retriable error, it
\* raises the error of the last attempt.
C5_CallTerminates == []C5_Outcome /\ [][C5_Progress]_vars

\* A call that used up its retries on retriable errors of different kinds.
C5_Witness ==
    /\ pc = "call_done"
    /\ call.status = "raised"
    /\ call.invocations = GEMINI_MAX_RETRIES
    /\ call.attempt = GEMINI_MAX_RETRIES
    /\ call.value = ErrDeadline
    /\ call.last_exc = ErrDeadline
    /\ call.sleeps = GEMINI_MAX_RETRIES

\* C6: two consecutive model invocations made through the RateLimiter are at
\* least Interval apart, whoever made them, and no more than GEMINI_RPM fall
\* into any minute (ages holds the invocations less than a minute old).
C6_RateLimited ==
    /\ \A i \in 1..(Len(ages) - 1) : ages[i + 1] - ages[i] >= Interval
    /\ Len(ages) <= GEMINI_RPM

\* A retry on the fallback model made exactly Interval after the invocation
\* before it, with a full minute of invocations behind it.
C6_Witness ==
    /\ pc = "except"
    /\ call.who = "fallback"
    /\ call.attempt >= 1
    /\ Len(ages) = GEMINI_RPM
    /\ ages[1] = 0
    /\ ages[2] = Interval

IsFallback(c) == c.model = model_fallback

\* The batch batch_calls belongs to: batch_no counts the batches left behind
CurrentBatch == IF pc \in {"loop", "returned"} THEN batch_no - 1 ELSE batch_no

C7_Order ==
    /\ batch_calls # <<>> =>
          /\ batch_calls[1].model = model_primary
          /\ CurrentBatch \in 0..(NumBatches(items, SUMM_BATCH_SIZE) - 1)
          /\ batch_calls[1].prompt = Prompt(CurrentBatch)
    /\ \A i \in 1..Len(batch_calls) :
          IsFallback(batch_calls[i]) =>
              /\ i = 2
              /\ batch_calls[1].outcome = "raised"
              /\ batch_calls[i].prompt = batch_calls[1].prompt

BothFailed == pc = "call_done" /\ IsFallback(call) /\ call.status = "raised"

C7_Skip ==
    /\ BothFailed => (out' = out /\ batch_no' = batch_no + 1 /\ pc' = "loop")
    /\ out' # out => (pc = "call_done" /\ call.status = "returned")
    /\ (pc = "loop" /\ pc' # "loop" /\ pc' # "returned") =>
          (call'.model = model_primary /\ call'.prompt = Prompt(batch_no))

\* C7: the prompt of every batch goes to the primary model first; the
\* fallback model gets the same prompt, once, and only after the primary call
\* raised; when both calls raised nothing is stored for the batch and the loop
\* goes on with the next batch, which starts on the primary model again.
C7_PrimaryThenFallback == []C7_Order /\ [][C7_Skip]_vars

\* Both calls of the first batch raised and a second batch is still to come.
C7_Witness ==
    /\ pc = "loop"
    /\ batch_no = 1
    /\ NumBatches(items, SUMM_BATCH_SIZE) = 2
    /\ Len(batch_calls) = 2
    /\ batch_calls[1].outcome = "raised"
    /\ batch_calls[2].outcome = "raised"
    /\ IsFallback(batch_calls[2])


(***************************************************************************)
(* semantic_dedup (run.py 607-632)                                         *)
(*                                                                         *)
(* The items are named 1, 2, ...; the cosine similarity of the texts of    *)
(* two items is kept in hundredths, by unordered pair, as                  *)
(* cosine_similarity returns a symmetric matrix.                           *)
(***************************************************************************)
\* DEDUP_SIM_THRESHOLD, default 0.82, in hundredths
DEDUP_SIM_THRESHOLD == 82

\* Most items handed to semantic_dedup
MaxDedupItems == 4

\* The similarities drawn: just under the threshold, the threshold, identical
SimValues == {DEDUP_SIM_THRESHOLD - 1, DEDUP_SIM_THRESHOLD, 100}

Pairs(n) == {p \in (1..n) \X (1..n) : p[1] < p[2]}

\* sim[i] ... [j] for the items a and b standing at positions i and j
Sim(sim, a, b) == IF a = b THEN 100 ELSE sim[<<Min(a, b), Max(a, b)>>]

IsDuplicateStrict(s) == s > DEDUP_SIM_THRESHOLD

\* row[j] >= DEDUP_SIM_THRESHOLD
IsDuplicate(s) == s >= DEDUP_SIM_THRESHOLD

\* The later positions the inner loop would add to dropped for position i
Matches(i, dropped, its, sim) ==
    {j \in (i + 1)..Len(its) :
        j \notin dropped /\ IsDuplicate(Sim(sim, its[i], its[j]))}

DropFirstMatch(i, dropped, its, sim) ==
    LET m == Matches(i, dropped, its, sim)
    IN  IF m = {} THEN dropped
        ELSE dropped \cup {CHOOSE j \in m : \A k \in m : j <= k}

\* for j in range(i + 1, n): ... dropped.add(j)
DropMatches(i, dropped, its, sim) ==
    dropped \cup Matches(i, dropped, its, sim)

\* Fault: a dropped item goes on to drop the later items similar to it
RECURSIVE DedupLoopChained(_, _, _, _, _)
DedupLoopChained(i, keep, dropped, its, sim) ==
    IF i > Len(its) THEN keep
    ELSE DedupLoopChained(i + 1,
                          IF i \in dropped THEN keep ELSE Append(keep, i),
                          DropMatches(i, dropped, its, sim), its, sim)

\* for i in range(n), from position i on, with keep and dropped so far
RECURSIVE DedupLoop(_, _, _, _, _)
DedupLoop(i, keep, dropped, its, sim) ==
    IF i > Len(its) THEN keep
    ELSE IF i \in dropped THEN DedupLoop(i + 1, keep, dropped, its, sim)
    ELSE DedupLoop(i + 1, Append(keep, i),
                   DropMatches(i, dropped, its, sim), its, sim)

\* semantic_dedup(items), given the similarities the vectorizer yields
semantic_dedup(its, sim) ==
    IF Len(its) <= 1 THEN its
    ELSE LET keep == DedupLoop(1, <<>>, {}, its, sim)
         IN  [k \in 1..Len(keep) |-> its[keep[k]]]

\* summarize_bullets and the model caller at rest
IdleCaller ==
    /\ items = <<>>
    /\ pc = "idle"
    /\ batch_no = 0
    /\ out = <<>>
    /\ raw = <<>>
    /\ call = NoCall
    /\ next_allowed_in = 0
    /\ ages = <<>>
    /\ batch_calls = <<>>

\* The other components at rest
IdleSumm == api_key = FALSE /\ IdleCaller

InitDedup ==
    /\ d_pc = "in"
    /\ \E n \in 0..MaxDedupItems :
         /\ d_items = [i \in 1..n |-> i]
         /\ d_sim \in [Pairs(n) -> SimValues]
    /\ d_out = <<>>
    /\ d_sim2 = <<>>
    /\ d_out2 = <<>>

\* semantic_dedup(items) returns
DedupApply ==
    /\ d_pc = "in"
    /\ d_out' = semantic_dedup(d_items, d_sim)
    /\ d_pc' = "once"
    /\ UNCHANGED <<d_items, d_sim, d_sim2, d_out2>>
    /\ UNCHANGED not_dedup

\* TfidfVectorizer.fit_transform raises ValueError (no term is left after
\* the stop words and max_df): nothing catches it in semantic_dedup
DedupVectorizerRaises ==
    /\ d_pc = "in"
    /\ Len(d_items) > 1
    /\ d_pc' = "raised"
    /\ UNCHANGED <<d_items, d_sim, d_out, d_sim2, d_out2>>
    /\ UNCHANGED not_dedup

\* The similarities a second call can compute: the vectorizer is fitted
\* again, on the surviving texts only, so each may fall on either side of
\* the threshold.
RefitValues == {DEDUP_SIM_THRESHOLD - 1, DEDUP_SIM_THRESHOLD}

\* The pairs of the items of its, named as in d_items
PairsOf(its) ==
    {p \in Pairs(Len(d_items)) :
        \E i, j \in 1..Len(its) : its[i] = p[1] /\ its[j] = p[2]}

\* semantic_dedup applied to its own result returns: sim is computed anew
\* from the surviving items
DedupAgain ==
    /\ d_pc = "once"
    /\ \E sim \in [PairsOf(d_out) -> RefitValues] :
         /\ d_sim2' = sim
         /\ d_out2' = semantic_dedup(d_out, sim)
    /\ d_pc' = "twice"
    /\ UNCHANGED <<d_items, d_sim, d_out>>
    /\ UNCHANGED not_dedup

\* fit_transform raises ValueError in the call on the result
DedupAgainRaises ==
    /\ d_pc = "once"
    /\ Len(d_out) > 1
    /\ d_pc' = "raised"
    /\ UNCHANGED <<d_items, d_sim, d_out, d_sim2, d_out2>>
    /\ UNCHANGED not_dedup

NextDedup ==
    \/ DedupApply
    \/ DedupVectorizerRaises
    \/ DedupAgain
    \/ DedupAgainRaises

StartDedup == InitDedup /\ IdleSumm /\ IdleMain /\ IdleFun

SpecDedup == StartDedup /\ [][NextDedup]_vars

(***************************************************************************)
(* Properties of semantic_dedup                                            *)
(***************************************************************************)
DedupReturned == d_pc \in {"once", "twice"}

\* C8: whatever the list and the similarity matrix, no two of the items
\* semantic_dedup returns have a similarity of DEDUP_SIM_THRESHOLD or more.
C8_NoSimilarSurvivors ==
    DedupReturned =>
        \A i, j \in 1..Len(d_out) :
            i # j => Sim(d_sim, d_out[i], d_out[j]) < DEDUP_SIM_THRESHOLD

\* Something was dropped for a similarity of exactly the threshold, and
\* several items survive
C8_Witness ==
    /\ DedupReturned
    /\ Len(d_out) >= 2
    /\ Len(d_out) < Len(d_items)
    /\ \E i \in 1..Len(d_out), j \in 1..Len(d_items) :
         /\ \A k \in 1..Len(d_out) : d_out[k] # d_items[j]
         /\ Sim(d_sim, d_out[i], d_items[j]) = DEDUP_SIM_THRESHOLD

\* The second call computed, for every two surviving items, the similarity
\* the first call had computed
SimilaritiesUnchanged ==
    \A p \in PairsOf(d_out) : d_sim2[p] = d_sim[p]

\* C9: semantic_dedup applied to its own result, the similarities of the
\* surviving items unchanged, returns the same items in the same order.
C9_DedupIdempotent ==
    (d_pc = "twice" /\ SimilaritiesUnchanged) => d_out2 = d_out

\* The second application had several survivors to compare, after a first
\* one that dropped more than one item
C9_Witness ==
    /\ d_pc = "twice"
    /\ Len(d_out) >= 2
    /\ Len(d_items) - Len(d_out) >= 2
    /\ SimilaritiesUnchanged
    /\ d_out2 = d_out


(***************************************************************************)
(* scrape and main (run.py 713-818)                                        *)
(*                                                                         *)
(* An item keeps its url, its source, its "category" (None when the key is *)
(* absent) and, as rule, what infer_category_rule_based returns for its    *)
(* title, body and url: one of the labels of CATEGORY_KEYWORDS, or None.   *)
(***************************************************************************)
\* sources_map.SOURCES, in order
SOURCES == <<"et:news", "shrm:coveo-news", "aihr:blog", "aihr:hr-trends">>

\* MAX_TOTAL_ITEMS (default 160)
MAX_TOTAL_ITEMS == 4

\* MIN_SIGNIFICANCE, default 3
MIN_SIGNIFICANCE == 3

\* MAX_PER_COMPANY, default 2
MAX_PER_COMPANY == 2

Item(url, source, category, rule) ==
    [url |-> url, source |-> source, category |-> category, rule |-> rule]

\* "ET HRWorld", the category of an ET page without h1
CatEtHrWorld == Chars("ET HRWorld")

\* is_et_url: the URLs on ET_DOMAIN are the first two
EtUrls == {Url(1), Url(2)}

is_et_url(url) == url \in EtUrls

\* What scrape_source returns for the ET hub: nothing (also when the request
\* fails), or items that carry the h1 text of their category page
EtPages ==
    { <<>>,
      <<Item(Url(1), SOURCES[1], JStr(CatEtHrWorld), None),
        Item(Url(2), SOURCES[1], JStr(<<>>), JStr(CATEGORY_TAXONOMY[2]))>>,
      <<Item(Url(1), SOURCES[1], JStr(CatHrTech), JStr(CATEGORY_TAXONOMY[1]))>>,
      <<Item(Url(1), SOURCES[1], JStr(<<>>), None),
        Item(Url(2), SOURCES[1], JStr(<<>>), None)>> }

\* What fetch_shrm_news_via_coveo returns: nothing (no token, or 401/403),
\* or items without category
ShrmResults ==
    { <<>>,
      <<Item(Url(3), SOURCES[2], None, JStr(CATEGORY_TAXONOMY[9]))>> }

\* What scrape_source returns for the page base of AIHR: items whose source
\* is base, without category
AihrPages(base) ==
    { <<>>,
      <<Item(Url(4), base, None, None)>>,
      <<Item(Url(4), base, None, None),
        Item(Url(5), base, None, None),
        Item(Url(3), base, None, None)>> }

SourceResults(base) ==
    IF base = "et:news" THEN EtPages
    ELSE IF base = "shrm:coveo-news" THEN ShrmResults
    ELSE AihrPages(base)

\* Fault: the cap without the test of seen
RECURSIVE UrlCapOnly(_, _, _)
UrlCapOnly(its, uniq, seen) ==
    IF its = <<>> THEN uniq
    ELSE LET uniq2 == Append(uniq, Head(its))
         IN  IF Len(uniq2) >= MAX_TOTAL_ITEMS THEN uniq2
             ELSE UrlCapOnly(Tail(its), uniq2, seen \cup {Head(its).url})

\* The URL-dedup and global cap loop of scrape
RECURSIVE UrlDedupCap(_, _, _)
UrlDedupCap(its, uniq, seen) ==
    IF its = <<>> THEN uniq
    ELSE IF Head(its).url \in seen THEN UrlDedupCap(Tail(its), uniq, seen)
    ELSE LET uniq2 == Append(uniq, Head(its))
         IN  IF Len(uniq2) >= MAX_TOTAL_ITEMS THEN uniq2
             ELSE UrlDedupCap(Tail(its), uniq2, seen \cup {Head(its).url})

\* main, step 2: the rule-based category of an ET item that has none
WithRuleCategory(it) ==
    IF is_et_url(it.url) /\ ~Truthy(it.category)
    THEN [it EXCEPT !.category = it.rule]
    ELSE it

\* a or b
PyOr(a, b) == IF Truthy(a) THEN a ELSE b

ResolveCategoryUnsnapped(cat) == cat.s

\* cat = snap_to_taxonomy(cat) or "Workplace Policy & Culture"
ResolveCategory(cat) ==
    LET snapped == SnapToTaxonomy(cat)
    IN  IF snapped = None THEN DEFAULT_CATEGORY ELSE snapped.s

\* Fault: the rule-based category preferred to the model's for every source
PreferredCategoryRuleFirst(it, s) ==
    IF is_et_url(it.url)
    THEN PyOr(it.category, PyOr(JStr(s.category), JStr(DEFAULT_CATEGORY)))
    ELSE PyOr(it.rule, PyOr(JStr(s.category), JStr(DEFAULT_CATEGORY)))

\* The category main prefers for an item with the enrichment s
PreferredCategory(it, s) ==
    IF is_et_url(it.url)
    THEN PyOr(it.category, PyOr(JStr(s.category), JStr(DEFAULT_CATEGORY)))
    ELSE PyOr(JStr(s.category), PyOr(it.rule, JStr(DEFAULT_CATEGORY)))

EnrichedItem(it, s) ==
    [source          |-> it.source,
     url             |-> it.url,
     summary_bullets |-> s.bullets,
     companies       |-> s.companies,
     significance    |-> s.significance,
     category        |-> ResolveCategory(PreferredCategory(it, s))]

\* main, step 5: the loop over unique
RECURSIVE Assemble(_, _)
Assemble(unique, s_map) ==
    IF unique = <<>> THEN <<>>
    ELSE LET it == Head(unique)
             rest == Assemble(Tail(unique), s_map)
         IN  IF it.url \notin DOMAIN s_map THEN rest
             ELSE IF s_map[it.url].significance < MIN_SIGNIFICANCE THEN rest
             ELSE <<EnrichedItem(it, s_map[it.url])>> \o rest


\* a < b, for strings
RECURSIVE StrLess(_, _)
StrLess(a, b) ==
    IF b = <<>> THEN FALSE
    ELSE IF a = <<>> THEN TRUE
    ELSE IF Head(a) = Head(b) THEN StrLess(Tail(a), Tail(b))
    ELSE CodePoint(Head(a)) < CodePoint(Head(b))

\* Fault: the names compared as written, not lower-cased
MainCompanyCaseSensitive(comps) ==
    LET asis == {comps[i] : i \in 1..Len(comps)}
    IN  CHOOSE c \in asis : \A d \in asis \ {c} : StrLess(c, d)

\* sorted({c.lower() for c in comps})[0]
MainCompany(comps) ==
    LET low == {Lower(comps[i]) : i \in 1..Len(comps)}
    IN  CHOOSE c \in low : \A d \in low \ {c} : StrLess(c, d)

\* counts.get(main, 0)
CountOf(counts, main) == IF main \in DOMAIN counts THEN counts[main] ELSE 0

\* The loop of enforce_company_diversity, with counts so far
RECURSIVE DiversityLoop(_, _)
DiversityLoop(its, counts) ==
    IF its = <<>> THEN <<>>
    ELSE LET it == Head(its)
         IN  IF it.companies = <<>>
             THEN <<it>> \o DiversityLoop(Tail(its), counts)
             ELSE LET main == MainCompany(it.companies)
                      n == CountOf(counts, main) + 1
                      rest == DiversityLoop(Tail(its), (main :> n) @@ counts)
                  IN  IF n <= MAX_PER_COMPANY THEN <<it>> \o rest ELSE rest

enforce_company_diversity(its) == DiversityLoop(its, <<>>)

\* The document main writes
Document(final_items) == [k |-> "doc", items |-> final_items]

Raised(type, origin) == [k |-> "exc", type |-> type, origin |-> origin]

\* The similarities semantic_dedup sees in main
MainSimValues == {DEDUP_SIM_THRESHOLD - 1, DEDUP_SIM_THRESHOLD}

InitMain ==
    /\ m_pc = "scrape"
    /\ m_src = 1
    /\ m_items = <<>>
    /\ m_scraped = <<>>
    /\ m_unique = <<>>
    /\ m_batch = 0
    /\ m_smap = <<>>
    /\ m_final = <<>>
    /\ m_out = None
    /\ m_exc = None

\* scrape: one source visited, its items appended
ScrapeExtend(found) ==
    /\ m_pc = "scrape"
    /\ m_src <= Len(SOURCES)
    /\ found \in SourceResults(SOURCES[m_src])
    /\ m_items' = m_items \o found
    /\ m_src' = m_src + 1
    /\ UNCHANGED <<m_pc, m_unique, m_batch, m_smap, m_final, m_out, m_exc>>
    /\ UNCHANGED m_scraped
    /\ UNCHANGED not_main

\* scrape: SESSION.post, r.raise_for_status or r.json raises in
\* fetch_shrm_news_via_coveo; neither scrape nor main catches it
ShrmFetchRaises ==
    /\ m_pc = "scrape"
    /\ m_src <= Len(SOURCES)
    /\ SOURCES[m_src] = "shrm:coveo-news"
    /\ m_pc' = "raised"
    /\ m_exc' = Raised("RequestException", "fetch_shrm_news_via_coveo")
    /\ UNCHANGED <<m_src, m_items, m_unique, m_batch, m_smap, m_final, m_out>>
    /\ UNCHANGED m_scraped
    /\ UNCHANGED not_main

\* scrape: urlparse raises ValueError on a link of the page, in
\* is_et_category for the ET hub (expand_et_news_landing calls it outside
\* its try) and in looks_like_article for another page; scrape_source,
\* scrape and main let it pass
ScrapeSourceRaises ==
    /\ m_pc = "scrape"
    /\ m_src <= Len(SOURCES)
    /\ SOURCES[m_src] # "shrm:coveo-news"
    /\ m_pc' = "raised"
    /\ m_exc' = Raised("ValueError",
                       IF SOURCES[m_src] = "et:news" THEN "is_et_category"
                       ELSE "looks_like_article")
    /\ UNCHANGED <<m_src, m_items, m_unique, m_batch, m_smap, m_final, m_out>>
    /\ UNCHANGED m_scraped
    /\ UNCHANGED not_main

\* scrape returns uniq
ScrapeReturn ==
    /\ m_pc = "scrape"
    /\ m_src > Len(SOURCES)
    /\ m_items' = UrlDedupCap(m_items, <<>>, {})
    /\ m_scraped' = m_items
    /\ m_pc' = "bodies"
    /\ UNCHANGED <<m_src, m_unique, m_batch, m_smap, m_final, m_out, m_exc>>
    /\ UNCHANGED not_main

\* main, step 2
FetchBodies ==
    /\ m_pc = "bodies"
    /\ m_items' = [i \in 1..Len(m_items) |-> WithRuleCategory(m_items[i])]
    /\ m_pc' = "dedup"
    /\ UNCHANGED <<m_src, m_unique, m_batch, m_smap, m_final, m_out, m_exc>>
    /\ UNCHANGED m_scraped
    /\ UNCHANGED not_main

\* main, step 3: semantic_dedup(candidates) returns
MainDedup ==
    /\ m_pc = "dedup"
    /\ \E sim \in [Pairs(Len(m_items)) -> MainSimValues] :
         LET kept == semantic_dedup([i \in 1..Len(m_items) |-> i], sim)
         IN  m_unique' = [k \in 1..Len(kept) |-> m_items[kept[k]]]
    /\ m_pc' = "summarize"
    /\ UNCHANGED <<m_src, m_items, m_batch, m_smap, m_final, m_out, m_exc>>
    /\ UNCHANGED m_scraped
    /\ UNCHANGED not_main

\* main, step 3: the vectorizer raises ValueError in semantic_dedup
MainDedupRaises ==
    /\ m_pc = "dedup"
    /\ Len(m_items) > 1
    /\ m_pc' = "raised"
    /\ m_exc' = Raised("ValueError", "semantic_dedup")
    /\ UNCHANGED <<m_src, m_items, m_unique, m_batch, m_smap, m_final, m_out>>
    /\ UNCHANGED m_scraped
    /\ UNCHANGED not_main


\* Fault: a missing GEMINI_API_KEY raised as an error
MainSummarizeNoKeyRaises ==
    /\ m_pc = "summarize"
    /\ ~api_key
    /\ m_pc' = "raised"
    /\ m_exc' = Raised("RuntimeError", "summarize_bullets")
    /\ UNCHANGED <<m_src, m_items, m_unique, m_batch, m_smap, m_final, m_out>>
    /\ UNCHANGED m_scraped
    /\ UNCHANGED not_main

\* main, step 4: GEMINI_API_KEY is missing, summarize_bullets returns {}
MainSummarizeNoKey ==
    /\ m_pc = "summarize"
    /\ ~api_key
    /\ m_smap' = <<>>
    /\ m_pc' = "assemble"
    /\ UNCHANGED <<m_src, m_items, m_unique, m_batch, m_final, m_out, m_exc>>
    /\ UNCHANGED m_scraped
    /\ UNCHANGED not_main

\* summarize_bullets: a batch whose text, raw or reformatted, parses
MainBatchStored(text) ==
    /\ m_pc = "summarize"
    /\ api_key
    /\ m_batch < NumBatches(m_unique, SUMM_BATCH_SIZE)
    /\ \E data \in {parse_json_lenient(text)} :
           /\ data # None
           /\ m_smap' = StoreObjects(m_smap, data.items)
    /\ m_batch' = m_batch + 1
    /\ UNCHANGED <<m_pc, m_src, m_items, m_unique, m_final, m_out, m_exc>>
    /\ UNCHANGED m_scraped
    /\ UNCHANGED not_main

\* summarize_bullets: a batch skipped, both models or the reformat call
\* having raised
MainBatchSkipped ==
    /\ m_pc = "summarize"
    /\ api_key
    /\ m_batch < NumBatches(m_unique, SUMM_BATCH_SIZE)
    /\ m_batch' = m_batch + 1
    /\ UNCHANGED <<m_pc, m_src, m_items, m_unique, m_smap, m_final, m_out,
                   m_exc>>
    /\ UNCHANGED m_scraped
    /\ UNCHANGED not_main

\* summarize_bullets: the reformatted text does not parse, "for obj in data"
\* raises TypeError on None
MainBatchRaises ==
    /\ m_pc = "summarize"
    /\ api_key
    /\ m_batch < NumBatches(m_unique, SUMM_BATCH_SIZE)
    /\ m_pc' = "raised"
    /\ m_exc' = Raised("TypeError", "summarize_bullets")
    /\ UNCHANGED <<m_src, m_items, m_unique, m_batch, m_smap, m_final, m_out>>
    /\ UNCHANGED m_scraped
    /\ UNCHANGED not_main

\* summarize_bullets returns out
MainSummarizeReturn ==
    /\ m_pc = "summarize"
    /\ api_key
    /\ m_batch = NumBatches(m_unique, SUMM_BATCH_SIZE)
    /\ m_pc' = "assemble"
    /\ UNCHANGED <<m_src, m_items, m_unique, m_batch, m_smap, m_final, m_out,
                   m_exc>>
    /\ UNCHANGED m_scraped
    /\ UNCHANGED not_main

\* main, steps 5 and 6
MainAssemble ==
    /\ m_pc = "assemble"
    /\ m_final' = enforce_company_diversity(Assemble(m_unique, m_smap))
    /\ m_pc' = "write"
    /\ UNCHANGED <<m_src, m_items, m_unique, m_batch, m_smap, m_out, m_exc>>
    /\ UNCHANGED m_scraped
    /\ UNCHANGED not_main

\* main, step 7
MainWrite ==
    /\ m_pc = "write"
    /\ m_out' = Document(m_final)
    /\ m_pc' = "done"
    /\ UNCHANGED <<m_src, m_items, m_unique, m_batch, m_smap, m_final, m_exc>>
    /\ UNCHANGED m_scraped
    /\ UNCHANGED not_main

NextMain ==
    \/ \E found \in UNION {SourceResults(SOURCES[i]) : i \in 1..Len(SOURCES)} :
          ScrapeExtend(found)
    \/ ShrmFetchRaises
    \/ ScrapeSourceRaises
    \/ ScrapeReturn
    \/ FetchBodies
    \/ MainDedup
    \/ MainDedupRaises
    \/ MainSummarizeNoKey
    \/ \E text \in ModelTexts : MainBatchStored(text)
    \/ MainBatchSkipped
    \/ MainBatchRaises
    \/ MainSummarizeReturn
    \/ MainAssemble
    \/ MainWrite

\* GEMINI_API_KEY is set or not when main starts
StartMain ==
    InitMain /\ api_key \in BOOLEAN /\ IdleCaller /\ IdleDedup /\ IdleFun

SpecMain == StartMain /\ [][NextMain]_vars

(***************************************************************************)
(* Properties of scrape and main                                           *)
(***************************************************************************)
\* C3: a hard failure while collecting one source, a network or HTTP error of
\* the SHRM news API included, ends only that source: scrape goes on to the
\* remaining sources and main writes the document; main never ends by an
\* exception that left fetch_shrm_news_via_coveo.
C3_SourceFailureIsolated ==
    ~(m_pc = "raised" /\ m_exc.origin = "fetch_shrm_news_via_coveo")

\* C10: every item of the document main writes has a significance of
\* MIN_SIGNIFICANCE or more and one of the labels of CATEGORY_TAXONOMY as its
\* category, whatever categories the scraper and the model gave.
C10_OutputFiltered ==
    m_out # None =>
        \A i \in 1..Len(m_out.items) :
            /\ m_out.items[i].significance >= MIN_SIGNIFICANCE
            /\ m_out.items[i].category \in TaxonomyLabels

\* A document with an item whose site category is no label, written when an
\* enriched item was left out for its significance
C10_Witness ==
    /\ m_out # None
    /\ \E i \in 1..Len(m_out.items), j \in 1..Len(m_unique) :
         /\ m_unique[j].url = m_out.items[i].url
         /\ m_unique[j].category = JStr(CatEtHrWorld)
    /\ \E j \in 1..Len(m_unique) :
         /\ m_unique[j].url \in DOMAIN m_smap
         /\ m_smap[m_unique[j].url].significance < MIN_SIGNIFICANCE


\* The positions of its that hold the first item of their URL
FirstSeen(its) ==
    {i \in 1..Len(its) : \A j \in 1..(i - 1) : its[j].url # its[i].url}

\* The k-th smallest element of a set of positions
KthOf(ps, k) == CHOOSE p \in ps : Cardinality({q \in ps : q <= p}) = k

DistinctUrls(its) ==
    \A i, j \in 1..Len(its) : i # j => its[i].url # its[j].url

\* scrape has returned to main: before that, and when a source raised,
\* m_items is the all_items of scrape
ScrapeReturned == m_pc \notin {"scrape", "idle"} /\ m_src > Len(SOURCES)

\* C11: URLs are unique through the pipeline: what scrape returns is the
\* first-seen candidate of each URL collected, in order, and no more than
\* MAX_TOTAL_ITEMS of them; unique, final_items and the items of the document
\* written never hold two items of one URL.
C11_UrlsUnique ==
    /\ m_pc = "bodies" =>
          /\ Len(m_items) = Min(MAX_TOTAL_ITEMS, Cardinality(FirstSeen(m_scraped)))
          /\ \A k \in 1..Len(m_items) :
                m_items[k] = m_scraped[KthOf(FirstSeen(m_scraped), k)]
    /\ ScrapeReturned =>
          /\ DistinctUrls(m_items)
          /\ Len(m_items) <= MAX_TOTAL_ITEMS
    /\ DistinctUrls(m_unique)
    /\ DistinctUrls(m_final)
    /\ m_out # None => DistinctUrls(m_out.items)

\* A document with an item, written after a scrape that met one URL twice
\* before the cap was reached, and more distinct URLs than the cap
C11_Witness ==
    /\ m_out # None
    /\ Len(m_out.items) >= 1
    /\ Cardinality(FirstSeen(m_scraped)) > MAX_TOTAL_ITEMS
    /\ \E i, j \in 1..MAX_TOTAL_ITEMS :
          i < j /\ m_scraped[i].url = m_scraped[j].url


(***************************************************************************)
(* Functions applied on their own, to arguments drawn from bounded sets    *)
(***************************************************************************)
\* Most items handed to enforce_company_diversity
MaxDivItems == 3

\* The companies lists of the items handed to enforce_company_diversity
CompanyLists ==
    { <<>>,
      <<<<"X">>>>,
      <<<<"x">>>>,
      <<<<"b">>, <<"A">>>>,
      <<<<"Y">>, <<"a">>>>,
      <<<<"U+2022", "x">>, <<"a">>>>,
      <<<<"U+00C9">>, <<"_">>>> }

DiversityInputs ==
    UNION { { [i \in 1..n |-> [url |-> Url(i), companies |-> cs[i]]] :
                cs \in [1..n -> CompanyLists] } : n \in 0..MaxDivItems }

ApplyDiversity ==
    /\ f_pc = "in"
    /\ f_fn = "enforce_company_diversity"
    /\ f_out' = enforce_company_diversity(f_in)
    /\ f_pc' = "done"
    /\ UNCHANGED <<f_fn, f_in>>
    /\ UNCHANGED not_fun


\* Longest text handed to parse_json_lenient, in pieces
MaxTextLen == 3

\* The pieces the texts handed to parse_json_lenient are made of: brackets,
\* a comma, a member name, literals (one string holds brackets and a comma
\* before a bracket, one a backslash, the bullet glyph and an n), prose, a
\* fence, NUL and the control character U+001C that is white space.
TextPieces ==
    { <<"[">>, <<"]">>, <<"{">>, <<"}">>, <<",", " ">>,
      Chars("\"url\": "), Dump(Url(1)), <<"3">>,
      Chars("\"[3],]\""), <<"\"", "\\", "U+2022", "n", "\"">>,
      Chars("no "), Fence, <<"U+0000">>, <<"U+001C">> }

RECURSIVE Concat(_)
Concat(ps) == IF ps = <<>> THEN <<>> ELSE Head(ps) \o Concat(Tail(ps))

\* Longer texts: a number cut in two by NUL, inside brackets; a string that
\* holds a comma before a bracket, with a trailing comma; prose before an
\* object whose string holds brackets; an array before a string that holds a
\* bracket; a string that holds a brace before an object; numbers out of a
\* double's range; a fence tag in capitals with a long s.
ParseExamples ==
    { <<"[", "3", "U+0000", "3", "]">>,
      Chars("[ \"a, ]\" , ]"),
      Chars("{ \"bullets\": \"x,}\" }"),
      Chars("Sorry, no JSON here { \"bullets\": \"see [1]\" }"),
      Chars("[ 3 ] , \"a]\" Sorry"),
      Chars("\"x{\" { \"url\": \"u1\" }"),
      Chars("[1e400, -1e400, 1e-400, 2.50, -0.0, 1E2, NaN, -Infinity]"),
      Chars("{\"url\": NaN, \"url\": Infinity, \"a\": 01}"),
      Chars("[\"\\u00e9\\ud83d\\ude00\\/\"]"),
      Fence \o <<"J", "U+017F", "O", "n">> \o Chars(" [3] ") \o Fence \o <<"U+001C">> }

ParseInputs ==
    ModelTexts \cup ParseExamples
    \cup UNION {{Concat(ps) : ps \in [1..n -> TextPieces]} : n \in 0..MaxTextLen}

ApplyParse ==
    /\ f_pc = "in"
    /\ f_fn = "parse_json_lenient"
    /\ f_out' = parse_json_lenient(f_in)
    /\ f_pc' = "done"
    /\ UNCHANGED <<f_fn, f_in>>
    /\ UNCHANGED not_fun

\* Largest number handed to coerce_significance, in tenths
MaxTenths == 80

\* Infinity, -Infinity, NaN: floats json.loads reads and round() raises on
NonFinite == {JNonFinite("NaN"), JNonFinite("Infinity"), JNonFinite("-Infinity")}

SignificanceTexts ==
    { <<"5"," ","(","v","e","r","y"," ","h","i","g","h",")">>,
      <<"n","o","n","e">>,
      <<>>,
      <<"0">>,
      <<"9">>,
      <<"1","0">>,
      <<"6"," ","o","r"," ","3">>,
      <<"x","4","y","2">> }

\* The values of "significance" in a parsed object
CoerceInputs ==
    {JBool(TRUE), JBool(FALSE), None, JList(<<>>), JList(<<JNum(40)>>), ObjThird}
    \cup NonFinite
    \cup {JNum(t) : t \in (0 - MaxTenths)..MaxTenths}
    \cup {Num(249, 100), Num(251, 100), Num(-251, 100), Num(4501, 1000)}
    \cup {JStr(t) : t \in SignificanceTexts}

\* The object of a batch with the significance val, normalized
ApplyCoerce ==
    /\ f_pc = "in"
    /\ f_fn = "coerce_significance"
    /\ f_out' = NormalizeObj(JObj(Url(1), None, None, f_in, None))
    /\ f_pc' = "done"
    /\ UNCHANGED <<f_fn, f_in>>
    /\ UNCHANGED not_fun

\* Most objects in one parsed batch
MaxBatchObjs == 3

\* bullets 7: a truthy value the loop over bullets raises on
ObjBadBullets == JObj(Url(2), JNum(70), None, JNum(40), None)

\* bullets {"a": null}, companies {"url": null}, category {}: the loops run
\* over the keys, the empty dict is falsy
ObjDictFields ==
    JObj(Url(2), JDict(<<Chars("a")>>), JDict(<<Chars("url")>>), JNum(40), JDict(<<>>))

\* url 30: a key as good as a string
ObjNumUrl == JObj(JNum(300), None, None, JNum(40), None)

\* url [1]: unhashable, out[url] raises TypeError
ObjListUrl == JObj(JList(<<JNum(10)>>), None, None, JNum(40), None)

\* url Infinity and url -Infinity: two keys
ObjInfUrl == JObj(JNonFinite("Infinity"), None, None, JNum(40), None)

ObjNegInfUrl == JObj(JNonFinite("-Infinity"), None, None, JNum(20), None)

\* url true: the key 1
ObjTrueUrl == JObj(JBool(TRUE), None, None, JNum(50), None)

\* url 1.0: the key 1
ObjOneUrl == JObj(JNum(10), None, None, JNum(30), None)

\* The elements of a parsed batch: objects, and a number
BatchObjects ==
    {ObjFirst, ObjSecond, ObjFirstAgain, ObjThird, ObjNoUrl, ObjBadCategory,
     ObjBadBullets, ObjDictFields, ObjNumUrl, ObjListUrl, ObjInfUrl,
     ObjNegInfUrl, ObjTrueUrl, ObjOneUrl, JNum(10)}

StoreInputs == UNION {[1..n -> BatchObjects] : n \in 0..MaxBatchObjs}

\* The loop over the objects of one batch, out being empty
ApplyStore ==
    /\ f_pc = "in"
    /\ f_fn = "store"
    /\ f_out' = StoreObjects(<<>>, f_in)
    /\ f_pc' = "done"
    /\ UNCHANGED <<f_fn, f_in>>
    /\ UNCHANGED not_fun

InitFun ==
    /\ f_pc = "in"
    /\ \/ f_fn = "enforce_company_diversity" /\ f_in \in DiversityInputs
       \/ f_fn = "parse_json_lenient" /\ f_in \in ParseInputs
       \/ f_fn = "coerce_significance" /\ f_in \in CoerceInputs
       \/ f_fn = "store" /\ f_in \in StoreInputs
    /\ f_out = <<>>

NextFun ==
    \/ ApplyDiversity
    \/ ApplyParse
    \/ ApplyCoerce
    \/ ApplyStore

StartFun == InitFun /\ IdleSumm /\ IdleDedup /\ IdleMain

SpecFun == StartFun /\ [][NextFun]_vars

(***************************************************************************)
(* Properties of the functions applied on their own                        *)
(***************************************************************************)
DiversityDone == f_fn = "enforce_company_diversity" /\ f_pc = "done"

\* The primary-company key of an item: the smallest of its lower-cased names
PrimaryKey(comps) ==
    LET names == {Lower(comps[i]) : i \in 1..Len(comps)}
    IN  CHOOSE c \in names : \A d \in names : c = d \/ StrLess(c, d)

\* How many items up to position i carry the key of item i
KeyRank(its, i) ==
    Cardinality({j \in 1..i :
                    /\ its[j].companies # <<>>
                    /\ PrimaryKey(its[j].companies) = PrimaryKey(its[i].companies)})

\* The positions enforce_company_diversity is to keep
DiversityKeeps(its) ==
    {i \in 1..Len(its) :
        its[i].companies = <<>> \/ KeyRank(its, i) <= MAX_PER_COMPANY}

\* C12: enforce_company_diversity returns, in input order, the items without
\* companies and, of the items of each primary-company key (the smallest
\* lower-cased name), the first MAX_PER_COMPANY.
C12_DiversityCap ==
    DiversityDone =>
        /\ Len(f_out) = Cardinality(DiversityKeeps(f_in))
        /\ \A k \in 1..Len(f_out) : f_out[k] = f_in[KthOf(DiversityKeeps(f_in), k)]

\* Three items of one key written in different cases: the third is dropped
C12_Witness ==
    /\ DiversityDone
    /\ Len(f_in) = 3
    /\ f_in[1].companies = <<<<"X">>>>
    /\ f_in[2].companies = <<<<"x">>>>
    /\ f_in[3].companies = <<<<"X">>>>
    /\ f_out = SubSeq(f_in, 1, 2)


\* C13: with GEMINI_API_KEY missing, summarize_bullets handles no batch (no
\* model is invoked) and returns an empty map, assembly keeps no candidate,
\* and main goes on from the summaries to write a document without items.
C13_NoKeyEmptyOutput ==
    ~api_key =>
        /\ m_batch = 0
        /\ m_smap = <<>>
        /\ m_final = <<>>
        /\ m_pc = "raised" => m_exc.origin # "summarize_bullets"
        /\ m_pc \in {"summarize", "assemble", "write"} => ENABLED NextMain
        /\ m_pc = "done" => m_out = Document(<<>>)

\* Without the key, the document written for several candidates
C13_Witness ==
    /\ ~api_key
    /\ m_pc = "done"
    /\ Len(m_unique) >= 2
    /\ m_out = Document(<<>>)


ParseDone == f_fn = "parse_json_lenient" /\ f_pc = "done"

\* C14: for any text, parse_json_lenient returns None or a list whose
\* elements are all mapping objects.
C14_ParseListOfMappings ==
    ParseDone =>
        \/ f_out = None
        \/ \A i \in 1..Len(f_out.items) : f_out.items[i].k = "obj"


(***************************************************************************)
(* Further properties of the orchestrator                                  *)
(***************************************************************************)
\* C15: the reformat prompt of a batch goes to the model whose call returned
\* the raw text that did not parse: to the fallback model when the fallback
\* call returned it.
C15_ReformatSameModel ==
    \A i \in 2..Len(batch_calls) :
        batch_calls[i].who = "reformat" =>
            /\ batch_calls[i - 1].outcome = "returned"
            /\ batch_calls[i].model = batch_calls[i - 1].model


(***************************************************************************)
(* Further properties of semantic_dedup                                    *)
(***************************************************************************)
DedupKept == {d_out[k] : k \in 1..Len(d_out)}

\* C16: semantic_dedup returns items of its input in input order, the first
\* input item among them; every item it drops is similar, by the threshold or
\* more, to an earlier item it keeps; fewer than two items come back as
\* they are.
C16_GreedyRepresentatives ==
    DedupReturned =>
        /\ \A k \in 1..Len(d_out) : d_out[k] \in 1..Len(d_items)
        /\ \A k \in 1..(Len(d_out) - 1) : d_out[k] < d_out[k + 1]
        /\ d_items # <<>> => (d_out # <<>> /\ d_out[1] = d_items[1])
        /\ \A j \in 1..Len(d_items) :
              j \notin DedupKept =>
                  \E i \in DedupKept :
                      i < j /\ Sim(d_sim, i, j) >= DEDUP_SIM_THRESHOLD
        /\ Len(d_items) < 2 => d_out = d_items

\* An item similar to a dropped item only is kept, behind its own cluster's
\* dropped member
C16_Witness ==
    /\ DedupReturned
    /\ Len(d_items) >= 3
    /\ d_out = <<1, 3>>
    /\ Sim(d_sim, 2, 3) >= DEDUP_SIM_THRESHOLD
    /\ Sim(d_sim, 1, 3) < DEDUP_SIM_THRESHOLD


(***************************************************************************)
(* Further properties of main                                              *)
(***************************************************************************)
\* The item of unique that the item of the document at position i was made of
UniqueOf(i) ==
    m_unique[CHOOSE j \in 1..Len(m_unique) : m_unique[j].url = m_out.items[i].url]

\* C17: in the document, an ET item has the label of its pre-computed
\* category when that yields one, and else the category of its enrichment
\* (a taxonomy label), not the default label.
C17_EtPrecedence ==
    m_out # None =>
        \A i \in 1..Len(m_out.items) :
            is_et_url(m_out.items[i].url) =>
                LET pre == SnapToTaxonomy(UniqueOf(i).category)
                IN  m_out.items[i].category =
                        IF pre # None THEN pre.s
                        ELSE m_smap[m_out.items[i].url].category


\* C18: in the document, an item of a source other than ET has the category
\* of its enrichment, whatever the rule-based category of the item is.
C18_ModelCategoryFirst ==
    m_out # None =>
        \A i \in 1..Len(m_out.items) :
            ~is_et_url(m_out.items[i].url) =>
                m_out.items[i].category = m_smap[m_out.items[i].url].category

\* A document with an item of SHRM whose rule-based category is another label
\* than the category of its enrichment
C18_Witness ==
    /\ m_out # None
    /\ \E i \in 1..Len(m_out.items) :
          /\ ~is_et_url(m_out.items[i].url)
          /\ UniqueOf(i).rule # None
          /\ UniqueOf(i).rule.s # m_out.items[i].category
          /\ m_out.items[i].category = m_smap[m_out.items[i].url].category


CoerceDone == f_fn = "coerce_significance" /\ f_pc = "done"

Clamp15(n) == IF n < 1 THEN 1 ELSE IF n > 5 THEN 5 ELSE n

Digits1to5 == <<"1", "2", "3", "4", "5">>

\* The first digit 1-5 of a text, 3 when it has none
FirstDigitOr3(t) ==
    LET at == {i \in 1..Len(t) : \E d \in 1..5 : t[i] = Digits1to5[d]}
    IN  IF at = {} THEN 3
        ELSE LET first == CHOOSE i \in at : \A j \in at : i <= j
             IN  CHOOSE d \in 1..5 : t[first] = Digits1to5[d]

\* C19: the record stored for an object has an integer significance in 1..5
\* whatever the value the model gave: 3 for a boolean, the nearest integer
\* clamped to 1..5 for a number, the first digit 1-5 of a string or 3 when it
\* has none, 3 for any other value.
C19_SignificanceCoerced ==
    CoerceDone =>
        /\ f_out.k = "store"
        /\ f_out.rec.significance \in 1..5
        /\ f_in.k = "bool" => f_out.rec.significance = 3
        /\ f_in.k = "num" =>
              \E r \in -10..10 :
                  /\ 2 * (f_in.d * r - f_in.n) \in (0 - f_in.d)..f_in.d
                  /\ f_out.rec.significance = Clamp15(r)
        /\ f_in.k = "str" => f_out.rec.significance = FirstDigitOr3(f_in.s)
        /\ f_in.k \notin {"bool", "num", "str"} => f_out.rec.significance = 3
        /\ f_in = JNum(79) => f_out.rec.significance = 5
        /\ f_in = JStr(<<"n","o","n","e">>) => f_out.rec.significance = 3
        /\ f_in = JStr(<<"5"," ","(","v","e","r","y"," ","h","i","g","h",")">>)
              => f_out.rec.significance = 5

\* 7.9 stored as 5
C19_Witness ==
    /\ CoerceDone
    /\ f_in = JNum(79)
    /\ f_out.k = "store"
    /\ f_out.rec.significance = 5


StoreDone == f_fn = "store" /\ f_pc = "done"

\* The positions of a batch whose object has a url and normalizes
GoodAt(data) == {i \in 1..Len(data) : NormalizeObj(data[i]).k = "store"}

\* C20: an object without url, or whose normalization raises, stores nothing,
\* and the other objects of its batch are stored as they would be without it:
\* the map holds exactly the URLs of the good objects, each with the record of
\* the last good object of that URL.
C20_BadObjectSkipped ==
    StoreDone =>
        LET good == GoodAt(f_in)
        IN  /\ DOMAIN f_out = {NormalizeObj(f_in[i]).url : i \in good}
            /\ \A i \in good :
                  (\A j \in good : j > i =>
                        NormalizeObj(f_in[j]).url # NormalizeObj(f_in[i]).url)
                  => f_out[NormalizeObj(f_in[i]).url] = NormalizeObj(f_in[i]).rec

\* A batch with a good object on either side of one that raises
C20_Witness ==
    /\ StoreDone
    /\ f_in = <<ObjFirst, ObjBadCategory, ObjThird>>
    /\ DOMAIN f_out = {Url(1), Url(3)}


\* C21: the record of a URL is produced once in a run of summarize_bullets:
\* a record stored under a URL stays in out as it is, whatever URLs the
\* objects of later batches carry.
C21_RecordWrittenOnce ==
    [][\A url \in DOMAIN out : url \in DOMAIN out' /\ out'[url] = out[url]]_vars

=============================================================================
